---- MODULE Spec2Model ----
(***************************************************************************)
(* The Meal Store of the calorie tracker, in its two variants:             *)
(*   - InMemoryDatabase      (app/services/databaseService.ts): a cache    *)
(*     over the key-value AsyncStorage;                                    *)
(*   - SQLiteDatabaseService (app/services/sqliteDatabaseService.ts): SQL  *)
(*     statements over the tables meals and daily_goals.                   *)
(* A behaviour is one device: a time zone, one store variant, and a serial *)
(* sequence of completed store calls.                                      *)
(*                                                                         *)
(* A JavaScript time value (milliseconds since the epoch) is held as the   *)
(* record [day, ms] that stands for day * MsPerDay + ms, because a count   *)
(* of milliseconds over several years does not fit TLC's integers.  Day 0  *)
(* is 2023-01-01 UTC.                                                      *)
(***************************************************************************)
EXTENDS Integers, Sequences, FiniteSets, TLC

VARIABLES
    variant,        \* "cache" or "sqlite": the DatabaseService in use
    tz,             \* local time minus UTC, in ms (the device's time zone)
    window,         \* the time values this behaviour draws its timestamps and dates from
    mealsCache,     \* InMemoryDatabase.mealsCache
    goalsCache,     \* InMemoryDatabase.goalsCache
    isInitialized,  \* InMemoryDatabase.isInitialized
    asyncStorage,   \* AsyncStorage: [meals, goals], each null or a JSON text
    sqlInitialized, \* SQLiteDatabaseService.isInitialized
    sqlMeals,       \* table meals, rows in rowid order
    sqlGoals,       \* table daily_goals, rows in rowid order
    lastOp,         \* the last completed call and its arguments
    lastErr,        \* "" when it resolved, else the message it rejected with
    lastResult,     \* what it resolved with
    now,            \* the device's clock: what Date.now() and new Date() give
    latestGoals,    \* the goals of the last saveDailyGoals that resolved, if any
    dayMeals,       \* MealProvider: meals, the current day's list
    isLoading,      \* MealProvider: isLoading
    error,          \* MealProvider: error, null or a message
    currentDate,    \* MealProvider: currentDate
    monthlySummary, \* MealProvider: monthlySummary, null or a summary
    dailyGoal,      \* MealProvider: dailyGoal
    calls,          \* the MealProvider calls in flight: where each stands, its locals
    generated,      \* the ids MealProvider.addMeal has generated so far
    screen,         \* HomeScreen: its state and where its handlers stand
    analysis,       \* the analyzeFoodImage call: where it stands, its locals
    storeCalls      \* the InMemoryDatabase calls in flight, by caller

vars == <<variant, tz, window, mealsCache, goalsCache, isInitialized,
          asyncStorage, sqlInitialized, sqlMeals, sqlGoals,
          lastOp, lastErr, lastResult, now, latestGoals,
          dayMeals, isLoading, error, currentDate, monthlySummary, dailyGoal,
          calls, generated, screen, analysis, storeCalls>>

cacheVars == <<mealsCache, goalsCache, isInitialized, asyncStorage>>
sqlVars == <<sqlInitialized, sqlMeals, sqlGoals>>
envVars == <<variant, tz, window>>
facadeState == <<dayMeals, isLoading, error, currentDate, monthlySummary, dailyGoal>>
facadeVars == <<facadeState, calls, generated>>
appVars == <<now, latestGoals, facadeVars>>
callerVars == <<screen, analysis, storeCalls>>

\* The number of meals a store holds at most.
MaxMeals == 2

-----------------------------------------------------------------------------
(* Sequences *)

RECURSIVE SelectSeqBy(_, _)
\* Array.prototype.filter with the predicate given as a set of accepted elements
SelectSeqBy(s, keep) ==
    IF s = <<>> THEN <<>>
    ELSE IF Head(s) \in keep THEN <<Head(s)>> \o SelectSeqBy(Tail(s), keep)
         ELSE SelectSeqBy(Tail(s), keep)

Range(s) == { s[i] : i \in DOMAIN s }

\* a meal or a row of s has this id
HasId(s, id) == \E i \in DOMAIN s : s[i].id = id

\* how many times x occurs in s
Count(s, x) == Cardinality({ i \in DOMAIN s : s[i] = x })

\* s1 and s2 hold the same elements, each as many times
SameElements(s1, s2) == \A x \in Range(s1) \cup Range(s2) : Count(s1, x) = Count(s2, x)

RECURSIVE SumCalories(_)
SumCalories(s) == IF s = <<>> THEN 0 ELSE Head(s).calories + SumCalories(Tail(s))

-----------------------------------------------------------------------------
(* ECMAScript Date, in the device's local time zone *)

MsPerDay == 24 * 60 * 60 * 1000

IsLeapYear(y) == (y % 4 = 0 /\ y % 100 # 0) \/ y % 400 = 0

DaysInYear(y) == IF IsLeapYear(y) THEN 366 ELSE 365

\* month is 0..11
DaysInMonth(y, m) ==
    IF m = 1 THEN (IF IsLeapYear(y) THEN 29 ELSE 28)
    ELSE IF m \in {3, 5, 8, 10} THEN 30 ELSE 31

RECURSIVE DaysBeforeYear(_)
\* days from 2023-01-01 to January 1 of year y
DaysBeforeYear(y) == IF y <= 2023 THEN 0 ELSE DaysBeforeYear(y - 1) + DaysInYear(y - 1)

RECURSIVE DaysBeforeMonth(_, _)
DaysBeforeMonth(y, m) == IF m = 0 THEN 0 ELSE DaysBeforeMonth(y, m - 1) + DaysInMonth(y, m - 1)

\* ECMAScript MakeDay: a month outside 0..11 carries into the year, and the
\* date counts from day 1 of that month, so date 0 is the last day of the
\* month before.
MakeDay(year, month, date) ==
    LET ym == year + (month \div 12)
        mn == month % 12
    IN  DaysBeforeYear(ym) + DaysBeforeMonth(ym, mn) + date - 1

MakeTime(h, mi, s, ms) == ((h * 60 + mi) * 60 + s) * 1000 + ms

\* a time value from a day number and a count of ms that may leave the day
TimeValue(day, ms) == [day |-> day + (ms \div MsPerDay), ms |-> ms % MsPerDay]

\* LocalTime(t) and UTC(t) of ECMAScript, with a fixed offset
LocalTime(t) == TimeValue(t.day, t.ms + tz)
UTCOf(l) == TimeValue(l.day, l.ms - tz)

\* new Date(year, month, date, h, mi, s, ms)
NewDate(year, month, date, h, mi, s, ms) ==
    UTCOf(TimeValue(MakeDay(year, month, date), MakeTime(h, mi, s, ms)))

\* date.setHours(h, mi, s, ms); date.getTime()
SetHours(t, h, mi, s, ms) == UTCOf(TimeValue(LocalTime(t).day, MakeTime(h, mi, s, ms)))

RECURSIVE YearFromDay(_, _)
YearFromDay(n, y) == IF n < DaysBeforeYear(y + 1) THEN y ELSE YearFromDay(n, y + 1)

RECURSIVE MonthFromDay(_, _, _)
MonthFromDay(n, y, m) ==
    IF n < DaysBeforeYear(y) + DaysBeforeMonth(y, m + 1) THEN m ELSE MonthFromDay(n, y, m + 1)

\* date.getFullYear(), date.getMonth(), date.getDate()
GetFullYear(t) == YearFromDay(LocalTime(t).day, 2023)
GetMonth(t) == MonthFromDay(LocalTime(t).day, GetFullYear(t), 0)
GetDate(t) ==
    LocalTime(t).day - DaysBeforeYear(GetFullYear(t))
        - DaysBeforeMonth(GetFullYear(t), GetMonth(t)) + 1

\* a <= b and a < b on time values
TimeLE(a, b) == a.day < b.day \/ (a.day = b.day /\ a.ms <= b.ms)
TimeLT(a, b) == ~TimeLE(b, a)

Pad2(n) == IF n < 10 THEN "0" \o ToString(n) ELSE ToString(n)

\* date.toLocaleDateString('en-CA'): YYYY-MM-DD in local time
DateKey(y, m, d) == ToString(y) \o "-" \o Pad2(m + 1) \o "-" \o Pad2(d)
ToLocaleDateString(t) == DateKey(GetFullYear(t), GetMonth(t), GetDate(t))

-----------------------------------------------------------------------------
(* The values a behaviour draws its inputs from *)

\* UTC-5 and UTC+5:30, as local time minus UTC in ms
TimeZones == << -5 * 60 * 60 * 1000, (5 * 60 + 30) * 60 * 1000 >>

\* Local date-times <<year, month, date, h, mi, s, ms>> around a boundary:
\* the end of a day, and the first and last millisecond of a 31-day month
\* after the turn of the year, of February in a leap and in a common year, of
\* a 30-day month, and of December, each with the first millisecond after it.
Windows ==
    << { <<2024, 0, 3, 10, 0, 0, 0>>, <<2024, 0, 3, 23, 59, 59, 999>>,
         <<2024, 0, 4, 0, 0, 0, 0>> },
       { <<2023, 11, 31, 23, 59, 59, 999>>, <<2024, 0, 1, 0, 0, 0, 0>>,
         <<2024, 0, 31, 23, 59, 59, 999>>, <<2024, 1, 1, 0, 0, 0, 0>> },
       { <<2024, 1, 1, 0, 0, 0, 0>>, <<2024, 1, 29, 23, 59, 59, 999>>,
         <<2024, 2, 1, 0, 0, 0, 0>> },
       { <<2023, 1, 1, 0, 0, 0, 0>>, <<2023, 1, 28, 23, 59, 59, 999>>,
         <<2023, 2, 1, 0, 0, 0, 0>> },
       { <<2024, 3, 1, 0, 0, 0, 0>>, <<2024, 3, 30, 23, 59, 59, 999>>,
         <<2024, 4, 1, 0, 0, 0, 0>> },
       { <<2024, 11, 1, 0, 0, 0, 0>>, <<2024, 11, 31, 23, 59, 59, 999>>,
         <<2025, 0, 1, 0, 0, 0, 0>> } >>

\* the time values of the window: what Date.now() gave when a meal was logged,
\* and the dates the queries are asked for
Times == window

\* the earliest time value of the window
FirstTime == CHOOSE t \in window : \A u \in window : TimeLE(t, u)

\* the (month, year) pairs the monthly queries are asked for
Months == { <<GetMonth(t), GetFullYear(t)>> : t \in Times }

Ids == {"m1", "m2"}

\* A string is a sequence of pieces; the piece "'" is the single quote.
\* What the recognition gave for a photo: imageUri, foodItems, calories,
\* confidence.
Analyses ==
    { [imageUri |-> <<"file:///it", "'", "s.jpg">>, foodItems |-> <<"pizza", "salad">>,
       calories |-> 500, confidence |-> 87],
      [imageUri |-> <<>>, foodItems |-> <<>>, calories |-> 300, confidence |-> 0] }

FoodLabels == UNION { Range(a.foodItems) : a \in Analyses }

\* interface Meal (context/MealContext.tsx)
MakeMeal(id, t, a) ==
    [id |-> id, timestamp |-> t, imageUri |-> a.imageUri, foodItems |-> a.foodItems,
     calories |-> a.calories, confidence |-> a.confidence]

\* the meals a behaviour logs: m1 is the photo of a recognised dish, m2 one
\* the recognition made nothing of
AnalysisOf(id) == CHOOSE a \in Analyses : (a.calories = 500) <=> (id = "m1")

Meals == { MakeMeal(id, t, AnalysisOf(id)) : id \in Ids, t \in Times }

\* interface DailyGoals
DefaultGoals == [calories |-> 2000, protein |-> 150, carbs |-> 250, fat |-> 65]

\* a nullable value: <<>> is null, <<v>> is v
Null == <<>>
Some(v) == <<v>>

-----------------------------------------------------------------------------
(* Text conversions *)

\* JSON.stringify / JSON.parse of a value kept in AsyncStorage: the item is
\* null (absent) or one JSON text
JSONStringify(v) == Some(v)
JSONParse(text) == text[1]

RECURSIVE JSONStringifyItems(_)
JSONStringifyItems(items) ==
    IF items = <<>> THEN <<>>
    ELSE <<"\"" \o Head(items) \o "\"">>
         \o (IF Tail(items) = <<>> THEN <<>> ELSE <<",">>)
         \o JSONStringifyItems(Tail(items))

\* JSON.stringify(meal.foodItems): the pieces of the JSON array text
JSONStringifyStrings(items) == <<"[">> \o JSONStringifyItems(items) \o <<"]">>

\* JSON.parse(row.food_items)
JSONParseStrings(text) ==
    LET quoted == SelectSeqBy(text, { "\"" \o l \o "\"" : l \in FoodLabels })
    IN  [ i \in DOMAIN quoted |-> CHOOSE l \in FoodLabels : "\"" \o l \o "\"" = quoted[i] ]

RECURSIVE SqlEscape(_)
\* s.replace(/'/g, "''")
SqlEscape(s) ==
    IF s = <<>> THEN <<>>
    ELSE (IF Head(s) = "'" THEN <<"'", "'">> ELSE <<Head(s)>>) \o SqlEscape(Tail(s))

RECURSIVE SqlTextLiteral(_)
\* The value SQLite reads from the body of a '...' literal: '' is one quote;
\* a quote that stands alone ends the literal early and the statement does
\* not parse.
SqlTextLiteral(body) ==
    IF body = <<>> THEN [ok |-> TRUE, value |-> <<>>]
    ELSE IF Head(body) # "'"
         THEN LET rest == SqlTextLiteral(Tail(body))
              IN  [ok |-> rest.ok, value |-> <<Head(body)>> \o rest.value]
    ELSE IF Len(body) >= 2 /\ body[2] = "'"
         THEN LET rest == SqlTextLiteral(Tail(Tail(body)))
              IN  [ok |-> rest.ok, value |-> <<"'">> \o rest.value]
    ELSE [ok |-> FALSE, value |-> <<>>]

-----------------------------------------------------------------------------
(* Day and month ranges *)

\* getLocalDayRange with setUTCHours for setHours: the UTC day of the date
getLocalDayRange_UTC(date) ==
    [start |-> [day |-> date.day, ms |-> 0], end |-> [day |-> date.day, ms |-> MsPerDay - 1]]

\* getLocalDayRange(date) (databaseService.ts)
getLocalDayRange(date) ==
    LET start == SetHours(date, 0, 0, 0, 0)
    IN  [start |-> start, end |-> SetHours(start, 23, 59, 59, 999)]

\* getLocalMonthRange with every month taken to have 30 days
getLocalMonthRange_ThirtyDays(month, year) ==
    [start |-> SetHours(NewDate(year, month, 1, 0, 0, 0, 0), 0, 0, 0, 0),
     end   |-> SetHours(NewDate(year, month, 30, 0, 0, 0, 0), 23, 59, 59, 999)]

\* getLocalMonthRange with day 1 of the next month for its day 0
getLocalMonthRange_ThroughNextFirst(month, year) ==
    [start |-> SetHours(NewDate(year, month, 1, 0, 0, 0, 0), 0, 0, 0, 0),
     end   |-> SetHours(NewDate(year, month + 1, 1, 0, 0, 0, 0), 23, 59, 59, 999)]

\* getLocalMonthRange(month, year) (databaseService.ts)
getLocalMonthRange(month, year) ==
    [start |-> SetHours(NewDate(year, month, 1, 0, 0, 0, 0), 0, 0, 0, 0),
     end   |-> SetHours(NewDate(year, month + 1, 0, 0, 0, 0, 0), 23, 59, 59, 999)]

\* startDate and endDate of SQLiteDatabaseService.getMealsByDate
SqlDayRange(date) ==
    [start |-> SetHours(date, 0, 0, 0, 0), end |-> SetHours(date, 23, 59, 59, 999)]

\* the month's range with the time of day left out of endDate
SqlMonthRange_LastDayAtMidnight(month, year) ==
    [start |-> NewDate(year, month, 1, 0, 0, 0, 0),
     end   |-> NewDate(year, month + 1, 0, 0, 0, 0, 0)]

\* startDate and endDate of SQLiteDatabaseService.getMealsByMonth
SqlMonthRange(month, year) ==
    [start |-> NewDate(year, month, 1, 0, 0, 0, 0),
     end   |-> NewDate(year, month + 1, 0, 23, 59, 59, 999)]

\* meal.timestamp >= start && meal.timestamp <= end
InRange(t, range) == TimeLE(range.start, t) /\ TimeLE(t, range.end)

\* the elements of s (meals or rows) with a timestamp in the range, in s's order
FilterByRange(s, range) == SelectSeqBy(s, { x \in Range(s) : InRange(x.timestamp, range) })

-----------------------------------------------------------------------------
(* The summary both variants compute from getMealsByMonth's result *)

NoDailyAverages == [k \in {} |-> [calories |-> 0, meals |-> 0]]

RECURSIVE DailyAverages_CountAssigned(_, _)
\* dailyAverages with meals = 1 for meals += 1
DailyAverages_CountAssigned(acc, meals) ==
    IF meals = <<>> THEN acc
    ELSE LET meal == Head(meals)
             dateKey == ToLocaleDateString(meal.timestamp)
             entry == IF dateKey \in DOMAIN acc THEN acc[dateKey]
                      ELSE [calories |-> 0, meals |-> 0]
             next == [k \in DOMAIN acc \cup {dateKey} |->
                        IF k = dateKey
                        THEN [calories |-> entry.calories + meal.calories, meals |-> 1]
                        ELSE acc[k]]
         IN  DailyAverages_CountAssigned(next, Tail(meals))

RECURSIVE DailyAverages_UTCKey(_, _)
\* dailyAverages keyed by the UTC date (toISOString().slice(0, 10))
DailyAverages_UTCKey(acc, meals) ==
    IF meals = <<>> THEN acc
    ELSE LET meal == Head(meals)
             utcDay == meal.timestamp.day
             y == YearFromDay(utcDay, 2023)
             m == MonthFromDay(utcDay, y, 0)
             dateKey == DateKey(y, m, utcDay - DaysBeforeYear(y) - DaysBeforeMonth(y, m) + 1)
             entry == IF dateKey \in DOMAIN acc THEN acc[dateKey]
                      ELSE [calories |-> 0, meals |-> 0]
             next == [k \in DOMAIN acc \cup {dateKey} |->
                        IF k = dateKey
                        THEN [calories |-> entry.calories + meal.calories,
                              meals |-> entry.meals + 1]
                        ELSE acc[k]]
         IN  DailyAverages_UTCKey(next, Tail(meals))

RECURSIVE DailyAverages(_, _)
\* meals.forEach(meal => ...) over dailyAverages, from the left
DailyAverages(acc, meals) ==
    IF meals = <<>> THEN acc
    ELSE LET meal == Head(meals)
             dateKey == ToLocaleDateString(meal.timestamp)
             entry == IF dateKey \in DOMAIN acc THEN acc[dateKey]
                      ELSE [calories |-> 0, meals |-> 0]
             next == [k \in DOMAIN acc \cup {dateKey} |->
                        IF k = dateKey
                        THEN [calories |-> entry.calories + meal.calories,
                              meals |-> entry.meals + 1]
                        ELSE acc[k]]
         IN  DailyAverages(next, Tail(meals))

\* the summary with the total divided by the number of days that have meals
MonthlySummaryOf_PerLoggedDay(meals, month, year) ==
    LET totalCalories == SumCalories(meals)
        totalMeals == Len(meals)
        dailyAverages == DailyAverages(NoDailyAverages, meals)
    IN  [month |-> month,
         year |-> year,
         totalCalories |-> totalCalories,
         averageCalories |-> IF totalMeals > 0
                             THEN [num |-> totalCalories,
                                   den |-> Cardinality(DOMAIN dailyAverages)]
                             ELSE [num |-> 0, den |-> 1],
         totalMeals |-> totalMeals,
         dailyAverages |-> dailyAverages]

\* the body of getMonthlySummary after the await; averageCalories is the
\* exact quotient num / den
MonthlySummaryOf(meals, month, year) ==
    LET totalCalories == SumCalories(meals)
        totalMeals == Len(meals)
        daysInMonth == GetDate(NewDate(year, month + 1, 0, 0, 0, 0, 0))
    IN  [month |-> month,
         year |-> year,
         totalCalories |-> totalCalories,
         averageCalories |-> IF totalMeals > 0
                             THEN [num |-> totalCalories, den |-> daysInMonth]
                             ELSE [num |-> 0, den |-> 1],
         totalMeals |-> totalMeals,
         dailyAverages |-> DailyAverages(NoDailyAverages, meals)]

-----------------------------------------------------------------------------
(* InMemoryDatabase (databaseService.ts) *)

NullGoals == [null |-> TRUE]

\* loadFromStorage(key, defaultValue): data ? JSON.parse(data) : defaultValue
loadFromStorage(item, defaultValue) == IF item = Null THEN defaultValue ELSE JSONParse(item)

\* the caches once initialize() has run
InitializedMeals ==
    IF isInitialized THEN mealsCache ELSE loadFromStorage(asyncStorage.meals, <<>>)
InitializedGoals ==
    IF isInitialized THEN goalsCache ELSE loadFromStorage(asyncStorage.goals, NullGoals)

\* initialize() on the way into a call that leaves the meals as they are
CacheInitialize ==
    /\ mealsCache' = InitializedMeals
    /\ goalsCache' = InitializedGoals
    /\ isInitialized' = TRUE
    /\ UNCHANGED asyncStorage

\* saveMeals(meals): initialize, saveToStorage(MEALS_STORAGE_KEY, meals), then
\* the cache is the list given
CacheDoSaveMeals(meals) ==
    /\ asyncStorage' = [asyncStorage EXCEPT !.meals = JSONStringify(meals)]
    /\ mealsCache' = meals
    /\ goalsCache' = InitializedGoals
    /\ isInitialized' = TRUE

\* addMeal: updatedMeals = [...this.mealsCache, meal]
CacheUpdatedOnAdd(cache, meal) == Append(cache, meal)

\* removeMeal with === for !==
CacheUpdatedOnRemove_KeepsId(cache, id) == SelectSeqBy(cache, { m \in Range(cache) : m.id = id })

\* removeMeal: updatedMeals = this.mealsCache.filter(meal => meal.id !== id)
CacheUpdatedOnRemove(cache, id) == SelectSeqBy(cache, { m \in Range(cache) : m.id # id })

\* getMealsByDate: this.mealsCache.filter(... start .. end)
CacheMealsByDate(cache, date) == FilterByRange(cache, getLocalDayRange(date))

\* getMealsByMonth: this.mealsCache.filter(... start .. end)
CacheMealsByMonth(cache, month, year) == FilterByRange(cache, getLocalMonthRange(month, year))

-----------------------------------------------------------------------------
(* SQLiteDatabaseService (sqliteDatabaseService.ts) *)

\* The INSERT INTO meals statement of addMeal and saveMeals, run on the table:
\* the text values are read back from their escaped literals, and the PRIMARY
\* KEY of createTables refuses an id the table holds.
SqlInsertMeal(rows, meal) ==
    LET uri == SqlTextLiteral(SqlEscape(meal.imageUri))
        items == SqlTextLiteral(SqlEscape(JSONStringifyStrings(meal.foodItems)))
    IN  IF ~uri.ok \/ ~items.ok \/ (\E r \in Range(rows) : r.id = meal.id)
        THEN [ok |-> FALSE, rows |-> rows]
        ELSE [ok |-> TRUE,
              rows |-> Append(rows, [id |-> meal.id,
                                     calories |-> meal.calories,
                                     timestamp |-> meal.timestamp,
                                     image_uri |-> uri.value,
                                     food_items |-> items.value,
                                     confidence |-> meal.confidence])]

RECURSIVE SqlInsertAll(_, _)
\* saveMeals: for (const meal of meals) execSync(INSERT ...), up to the first
\* statement that throws
SqlInsertAll(rows, meals) ==
    IF meals = <<>> THEN [ok |-> TRUE, rows |-> rows]
    ELSE LET one == SqlInsertMeal(rows, Head(meals))
         IN  IF one.ok THEN SqlInsertAll(one.rows, Tail(meals)) ELSE one

\* removeMeal: DELETE FROM meals WHERE id = '<id, escaped>'
SqlDeleteMeal(rows, id) ==
    LET lit == SqlTextLiteral(SqlEscape(<<id>>))
    IN  SelectSeqBy(rows, { r \in Range(rows) : <<r.id>> # lit.value })

\* the row mapping reading row.imageUri, which no row has, for row.image_uri
RowToMeal_CamelCase(row) ==
    [id |-> row.id,
     calories |-> row.calories,
     timestamp |-> row.timestamp,
     imageUri |-> <<>>,
     foodItems |-> IF row.food_items = <<>> THEN <<>> ELSE JSONParseStrings(row.food_items),
     confidence |-> IF row.confidence = 0 THEN 0 ELSE row.confidence]

\* result.map(row => ({ ... })) of loadMeals, getMealsByDate, getMealsByMonth
RowToMeal(row) ==
    [id |-> row.id,
     calories |-> row.calories,
     timestamp |-> row.timestamp,
     imageUri |-> IF row.image_uri = <<>> THEN <<>> ELSE row.image_uri,
     foodItems |-> IF row.food_items = <<>> THEN <<>> ELSE JSONParseStrings(row.food_items),
     confidence |-> IF row.confidence = 0 THEN 0 ELSE row.confidence]

RowsToMeals(rows) == [i \in DOMAIN rows |-> RowToMeal(rows[i])]

IsTimestampDesc(s) == \A i \in 1..(Len(s) - 1) : TimeLE(s[i + 1].timestamp, s[i].timestamp)

\* ORDER BY timestamp DESC: the orders SQLite may give the rows in (the order
\* of rows with equal timestamps is not defined)
OrderByTimestampDesc(rows) ==
    { ordered \in { [i \in DOMAIN rows |-> rows[p[i]]] : p \in Permutations(DOMAIN rows) } :
        IsTimestampDesc(ordered) }

\* getMealsByDate: SELECT * FROM meals WHERE timestamp >= start AND
\* timestamp <= end ORDER BY timestamp DESC, mapped to meals
SqlMealsByDate(rows, date) ==
    { RowsToMeals(r) : r \in OrderByTimestampDesc(FilterByRange(rows, SqlDayRange(date))) }

\* getMealsByMonth: the same over the month's range
SqlMealsByMonth(rows, month, year) ==
    { RowsToMeals(r) :
        r \in OrderByTimestampDesc(FilterByRange(rows, SqlMonthRange(month, year))) }

\* loadMeals: SELECT * FROM meals ORDER BY timestamp DESC
SqlLoadMeals(rows) == { RowsToMeals(r) : r \in OrderByTimestampDesc(rows) }

-----------------------------------------------------------------------------
(* The state after construction *)

\* The storage outlives the process: a store is constructed over storage that
\* holds no goals (a fresh install) or the goals an earlier session saved.
\* The device is in UTC+5:30 or in UTC-5.
\* the MealProvider calls: loadInitialData (also refreshMeals and
\* refreshCurrentDate), a second run of it that refreshCurrentDate starts,
\* addMeal, removeMeal, updateDailyGoal
CallNames == {"load", "refresh", "add", "remove", "goal"}
Idle == [pc |-> "idle"]

NullSummary == [null |-> TRUE]

\* the callers of the store
StoreCallers == {"a", "b"}

\* the text of dailyGoal.toString() for the default goal
DefaultGoalText == <<"2", "0", "0", "0">>

\* HomeScreen's useState initial values, no analyzeFoodImage call and no
\* store call in flight
CallersInit ==
    /\ screen = [isAnalyzing |-> FALSE, error |-> Null, isEditingGoal |-> FALSE,
                 newGoal |-> DefaultGoalText, alert |-> Null,
                 analyzeFood |-> Idle, handleUpdateGoal |-> Idle]
    /\ analysis = Idle
    /\ storeCalls = [c \in StoreCallers |-> Idle]

\* MealProvider's useState initial values, with no call made yet
ProviderInit ==
    /\ CallersInit
    /\ dayMeals = <<>>
    /\ isLoading = TRUE
    /\ error = Null
    /\ currentDate = now
    /\ monthlySummary = NullSummary
    /\ dailyGoal = 2000
    /\ calls = [c \in CallNames |-> Idle]
    /\ generated = {}

\* the device: its time zone and the window of time of the behaviour, one of
\* the windows numbered in ws
DeviceInit(ws) ==
    \E w \in ws :
       /\ tz = TimeZones[1 + (w % 2)]
       /\ window = { UTCOf(TimeValue(MakeDay(c[1], c[2], c[3]),
                                     MakeTime(c[4], c[5], c[6], c[7]))) : c \in Windows[w] }

Init ==
    /\ variant \in {"cache", "sqlite"}
    /\ DeviceInit(DOMAIN Windows)
    /\ mealsCache = <<>>
    /\ goalsCache = NullGoals
    /\ isInitialized = FALSE
    /\ sqlInitialized = FALSE
    /\ sqlMeals = <<>>
    /\ \E saved \in BOOLEAN :
         /\ latestGoals = IF saved THEN DefaultGoals ELSE NullGoals
         /\ asyncStorage =
              [meals |-> Null,
               goals |-> IF saved /\ variant = "cache"
                         THEN JSONStringify(DefaultGoals) ELSE Null]
         /\ sqlGoals =
              IF saved /\ variant = "sqlite"
              THEN << [calories |-> DefaultGoals.calories, protein |-> DefaultGoals.protein,
                       carbs |-> DefaultGoals.carbs, fat |-> DefaultGoals.fat,
                       updated_at |-> NewDate(2023, 0, 1, 0, 0, 0, 0)] >>
              ELSE <<>>
    /\ lastOp = [op |-> "none"]
    /\ lastErr = ""
    /\ lastResult = <<>>
    /\ now = FirstTime
    /\ ProviderInit

\* the call resolved (err = "") or rejected with the message err; op names the
\* method and its arguments, and for addMeal and removeMeal whether the id was
\* stored when the call began
Completed(op, err, result) ==
    /\ lastOp' = op
    /\ lastErr' = err
    /\ lastResult' = result

\* what clearAllData is recorded with: whether it follows another clearAllData
\* directly, and what the store held (how many meals, whether goals) when the
\* first of these calls began
ClearAllDataOp(meals, goals) ==
    [op |-> "clearAllData",
     again |-> lastOp.op = "clearAllData",
     first |-> IF lastOp.op = "clearAllData" THEN lastOp.first
               ELSE [meals |-> meals, goals |-> goals]]

\* the lists saveMeals is called with: what a store may hold, each id once
SaveMealsInputs ==
    LET first == CHOOSE t \in Times : \A u \in Times : TimeLE(t, u)
        lists == UNION { [1..n -> { m \in Meals : m.timestamp = first }] : n \in 0..MaxMeals }
    IN  { l \in lists : \A i, j \in DOMAIN l : l[i].id = l[j].id => i = j }

-----------------------------------------------------------------------------
(* InMemoryDatabase: one action per method, the whole call *)

InMemory_saveMeals(meals) ==
    /\ variant = "cache"
    /\ CacheDoSaveMeals(meals)
    /\ Completed([op |-> "saveMeals", meals |-> meals], "", <<>>)
    /\ UNCHANGED <<envVars, callerVars, appVars, sqlVars>>

InMemory_loadMeals ==
    /\ variant = "cache"
    /\ CacheInitialize
    /\ Completed([op |-> "loadMeals"], "", InitializedMeals)
    /\ UNCHANGED <<envVars, callerVars, appVars, sqlVars>>

InMemory_addMeal(meal) ==
    /\ variant = "cache"
    /\ Len(InitializedMeals) < MaxMeals
    /\ CacheDoSaveMeals(CacheUpdatedOnAdd(InitializedMeals, meal))
    /\ Completed([op |-> "addMeal", meal |-> meal,
                  stored |-> HasId(InitializedMeals, meal.id)], "", <<>>)
    /\ UNCHANGED <<envVars, callerVars, appVars, sqlVars>>

InMemory_removeMeal(id) ==
    /\ variant = "cache"
    /\ CacheDoSaveMeals(CacheUpdatedOnRemove(InitializedMeals, id))
    /\ Completed([op |-> "removeMeal", id |-> id,
                  stored |-> HasId(InitializedMeals, id)], "", <<>>)
    /\ UNCHANGED <<envVars, callerVars, appVars, sqlVars>>

InMemory_getMealsByDate(date) ==
    /\ variant = "cache"
    /\ CacheInitialize
    /\ Completed([op |-> "getMealsByDate", date |-> date], "",
                 CacheMealsByDate(InitializedMeals, date))
    /\ UNCHANGED <<envVars, callerVars, appVars, sqlVars>>

\* removes the three items and resets the caches; it does not initialize
InMemory_clearAllData ==
    /\ variant = "cache"
    /\ asyncStorage' = [meals |-> Null, goals |-> Null]
    /\ mealsCache' = <<>>
    /\ goalsCache' = NullGoals
    /\ isInitialized' = FALSE
    /\ Completed(ClearAllDataOp(Len(InitializedMeals), InitializedGoals # NullGoals), "", <<>>)
    /\ latestGoals' = NullGoals
    /\ UNCHANGED <<envVars, callerVars, now, facadeVars, sqlVars>>

InMemory_getMealsByMonth(month, year) ==
    /\ variant = "cache"
    /\ CacheInitialize
    /\ Completed([op |-> "getMealsByMonth", month |-> month, year |-> year], "",
                 CacheMealsByMonth(InitializedMeals, month, year))
    /\ UNCHANGED <<envVars, callerVars, appVars, sqlVars>>

InMemory_getMonthlySummary(month, year) ==
    /\ variant = "cache"
    /\ CacheInitialize
    /\ Completed([op |-> "getMonthlySummary", month |-> month, year |-> year], "",
                 MonthlySummaryOf(CacheMealsByMonth(InitializedMeals, month, year),
                                  month, year))
    /\ UNCHANGED <<envVars, callerVars, appVars, sqlVars>>

-----------------------------------------------------------------------------
(* SQLiteDatabaseService: one action per method, the whole call *)

\* saveMeals: DELETE FROM meals, then the INSERTs; the first one that throws
\* ends the call and leaves the rows inserted so far
SQLite_saveMeals(meals) ==
    /\ variant = "sqlite"
    /\ LET done == SqlInsertAll(<<>>, meals)
       IN  /\ sqlMeals' = done.rows
           /\ Completed([op |-> "saveMeals", meals |-> meals],
                        IF done.ok THEN "" ELSE "Failed to save meals", <<>>)
    /\ sqlInitialized' = TRUE
    /\ UNCHANGED <<envVars, callerVars, appVars, cacheVars, sqlGoals>>

SQLite_loadMeals ==
    /\ variant = "sqlite"
    /\ \E result \in SqlLoadMeals(sqlMeals) : Completed([op |-> "loadMeals"], "", result)
    /\ sqlInitialized' = TRUE
    /\ UNCHANGED <<envVars, callerVars, appVars, cacheVars, sqlMeals, sqlGoals>>

SQLite_addMeal(meal) ==
    /\ variant = "sqlite"
    /\ Len(sqlMeals) < MaxMeals
    /\ LET done == SqlInsertMeal(sqlMeals, meal)
       IN  /\ sqlMeals' = done.rows
           /\ Completed([op |-> "addMeal", meal |-> meal,
                         stored |-> HasId(sqlMeals, meal.id)],
                        IF done.ok THEN "" ELSE "Failed to add meal", <<>>)
    /\ sqlInitialized' = TRUE
    /\ UNCHANGED <<envVars, callerVars, appVars, cacheVars, sqlGoals>>

SQLite_removeMeal(id) ==
    /\ variant = "sqlite"
    /\ sqlMeals' = SqlDeleteMeal(sqlMeals, id)
    /\ Completed([op |-> "removeMeal", id |-> id, stored |-> HasId(sqlMeals, id)],
                 "", <<>>)
    /\ sqlInitialized' = TRUE
    /\ UNCHANGED <<envVars, callerVars, appVars, cacheVars, sqlGoals>>

SQLite_getMealsByDate(date) ==
    /\ variant = "sqlite"
    /\ \E result \in SqlMealsByDate(sqlMeals, date) :
         Completed([op |-> "getMealsByDate", date |-> date], "", result)
    /\ sqlInitialized' = TRUE
    /\ UNCHANGED <<envVars, callerVars, appVars, cacheVars, sqlMeals, sqlGoals>>

\* clearAllData without its DELETE FROM daily_goals
SQLite_clearAllData_KeepsGoals ==
    /\ variant = "sqlite"
    /\ sqlMeals' = <<>>
    /\ Completed(ClearAllDataOp(Len(sqlMeals), sqlGoals # <<>>), "", <<>>)
    /\ latestGoals' = NullGoals
    /\ sqlInitialized' = TRUE
    /\ UNCHANGED <<envVars, callerVars, now, facadeVars, cacheVars, sqlGoals>>

\* DELETE FROM meals; DELETE FROM daily_goals; DELETE FROM user_profile
SQLite_clearAllData ==
    /\ variant = "sqlite"
    /\ sqlMeals' = <<>>
    /\ sqlGoals' = <<>>
    /\ Completed(ClearAllDataOp(Len(sqlMeals), sqlGoals # <<>>), "", <<>>)
    /\ latestGoals' = NullGoals
    /\ sqlInitialized' = TRUE
    /\ UNCHANGED <<envVars, callerVars, now, facadeVars, cacheVars>>

SQLite_getMealsByMonth(month, year) ==
    /\ variant = "sqlite"
    /\ \E result \in SqlMealsByMonth(sqlMeals, month, year) :
         Completed([op |-> "getMealsByMonth", month |-> month, year |-> year], "", result)
    /\ sqlInitialized' = TRUE
    /\ UNCHANGED <<envVars, callerVars, appVars, cacheVars, sqlMeals, sqlGoals>>

SQLite_getMonthlySummary(month, year) ==
    /\ variant = "sqlite"
    /\ \E meals \in SqlMealsByMonth(sqlMeals, month, year) :
         Completed([op |-> "getMonthlySummary", month |-> month, year |-> year], "",
                   MonthlySummaryOf(meals, month, year))
    /\ sqlInitialized' = TRUE
    /\ UNCHANGED <<envVars, callerVars, appVars, cacheVars, sqlMeals, sqlGoals>>

-----------------------------------------------------------------------------
(* The process *)

\* The app is closed and opened again: the singletons are constructed anew
\* over the storage the last session left.
Restart ==
    /\ mealsCache' = <<>>
    /\ goalsCache' = NullGoals
    /\ isInitialized' = FALSE
    /\ sqlInitialized' = FALSE
    /\ Completed([op |-> "none"], "", <<>>)
    /\ UNCHANGED <<envVars, callerVars, appVars, asyncStorage, sqlMeals, sqlGoals>>

Next ==
    \/ \E meals \in SaveMealsInputs : InMemory_saveMeals(meals)
    \/ InMemory_loadMeals
    \/ \E meal \in Meals : InMemory_addMeal(meal)
    \/ \E id \in Ids : InMemory_removeMeal(id)
    \/ \E date \in Times : InMemory_getMealsByDate(date)
    \/ InMemory_clearAllData
    \/ \E my \in Months : InMemory_getMealsByMonth(my[1], my[2])
    \/ \E my \in Months : InMemory_getMonthlySummary(my[1], my[2])
    \/ \E meals \in SaveMealsInputs : SQLite_saveMeals(meals)
    \/ SQLite_loadMeals
    \/ \E meal \in Meals : SQLite_addMeal(meal)
    \/ \E id \in Ids : SQLite_removeMeal(id)
    \/ \E date \in Times : SQLite_getMealsByDate(date)
    \/ SQLite_clearAllData
    \/ \E my \in Months : SQLite_getMealsByMonth(my[1], my[2])
    \/ \E my \in Months : SQLite_getMonthlySummary(my[1], my[2])
    \/ Restart

Spec == Init /\ [][Next]_vars

-----------------------------------------------------------------------------
(* What a caller of the store in use observes *)

\* loadDailyGoals of the SQLite variant: SELECT * FROM daily_goals ORDER BY
\* updated_at DESC LIMIT 1, the goals it may return (NullGoals from no row)
SqlLatestGoals(rows) ==
    IF rows = <<>> THEN {NullGoals}
    ELSE { [calories |-> r.calories, protein |-> r.protein, carbs |-> r.carbs, fat |-> r.fat] :
             r \in { x \in Range(rows) :
                       \A y \in Range(rows) : TimeLE(y.updated_at, x.updated_at) } }

\* the meals the store holds, in the order it keeps them
StoredMeals == IF variant = "cache" THEN InitializedMeals ELSE RowsToMeals(sqlMeals)

\* the meals and goals the storage holds for the next session
PersistedMeals ==
    IF variant = "cache" THEN loadFromStorage(asyncStorage.meals, <<>>)
    ELSE RowsToMeals(sqlMeals)
PersistedGoals ==
    IF variant = "cache" THEN {loadFromStorage(asyncStorage.goals, NullGoals)}
    ELSE SqlLatestGoals(sqlGoals)

\* what loadDailyGoals may return
StoredGoals == IF variant = "cache" THEN {InitializedGoals} ELSE SqlLatestGoals(sqlGoals)

\* what getMealsByDate(date) and getMealsByMonth(month, year) may return
MealsByDate(date) ==
    IF variant = "cache" THEN {CacheMealsByDate(InitializedMeals, date)}
    ELSE SqlMealsByDate(sqlMeals, date)
MealsByMonth(month, year) ==
    IF variant = "cache" THEN {CacheMealsByMonth(InitializedMeals, month, year)}
    ELSE SqlMealsByMonth(sqlMeals, month, year)

\* the two dates are the same local calendar day
SameLocalDay(a, b) == LocalTime(a).day = LocalTime(b).day

-----------------------------------------------------------------------------
(* The daily goals: saveDailyGoals and loadDailyGoals, with the clock *)

\* The number of rows the table daily_goals holds at most.
MaxGoalsRows == 2

\* the goals saveDailyGoals is called with: the ones of an earlier session,
\* and what updateDailyGoal(1800) builds
GoalsInputs == { DefaultGoals, [calories |-> 1800, protein |-> 0, carbs |-> 0, fat |-> 0] }

\* Time passes: the clock shows the next time value of the window.
Tick ==
    /\ \E t \in window :
         /\ TimeLT(now, t)
         /\ \A u \in window : TimeLT(now, u) => TimeLE(t, u)
         /\ now' = t
    /\ UNCHANGED <<envVars, callerVars, cacheVars, sqlVars, lastOp, lastErr, lastResult,
                   latestGoals,
                   facadeVars>>

InMemory_saveDailyGoals(goals) ==
    /\ variant = "cache"
    /\ asyncStorage' = [asyncStorage EXCEPT !.goals = JSONStringify(goals)]
    /\ goalsCache' = goals
    /\ mealsCache' = InitializedMeals
    /\ isInitialized' = TRUE
    /\ latestGoals' = goals
    /\ Completed([op |-> "saveDailyGoals", goals |-> goals], "", <<>>)
    /\ UNCHANGED <<envVars, callerVars, now, facadeVars, sqlVars>>

InMemory_loadDailyGoals ==
    /\ variant = "cache"
    /\ CacheInitialize
    /\ Completed([op |-> "loadDailyGoals"], "", InitializedGoals)
    /\ UNCHANGED <<envVars, callerVars, appVars, sqlVars>>

\* the row INSERT INTO daily_goals (..., updated_at) VALUES (..., Date.now()) adds
SqlGoalsRow(goals, updatedAt) ==
    [calories |-> goals.calories, protein |-> goals.protein, carbs |-> goals.carbs,
     fat |-> goals.fat, updated_at |-> updatedAt]

SQLite_saveDailyGoals(goals) ==
    /\ variant = "sqlite"
    /\ Len(sqlGoals) < MaxGoalsRows
    /\ sqlGoals' = Append(sqlGoals, SqlGoalsRow(goals, now))
    /\ sqlInitialized' = TRUE
    /\ latestGoals' = goals
    /\ Completed([op |-> "saveDailyGoals", goals |-> goals], "", <<>>)
    /\ UNCHANGED <<envVars, callerVars, now, facadeVars, cacheVars, sqlMeals>>

\* SELECT * FROM daily_goals ORDER BY updated_at DESC LIMIT 1: of rows with
\* the greatest updated_at, the one the database puts first
SQLite_loadDailyGoals ==
    /\ variant = "sqlite"
    /\ \E result \in SqlLatestGoals(sqlGoals) : Completed([op |-> "loadDailyGoals"], "", result)
    /\ sqlInitialized' = TRUE
    /\ UNCHANGED <<envVars, callerVars, appVars, cacheVars, sqlMeals, sqlGoals>>

GoalsNext ==
    \/ \E goals \in GoalsInputs : InMemory_saveDailyGoals(goals)
    \/ InMemory_loadDailyGoals
    \/ InMemory_clearAllData
    \/ \E goals \in GoalsInputs : SQLite_saveDailyGoals(goals)
    \/ SQLite_loadDailyGoals
    \/ SQLite_clearAllData
    \/ Tick
    \/ Restart

GoalsSpec == Init /\ [][GoalsNext]_vars

-----------------------------------------------------------------------------
(* The two variants side by side: each call is made on both stores *)

\* both stores constructed over empty storage on the same device, around the
\* end of a day or the end of a February
BothInit ==
    /\ variant = "both"
    /\ DeviceInit({1, 4})
    /\ mealsCache = <<>>
    /\ goalsCache = NullGoals
    /\ isInitialized = FALSE
    /\ asyncStorage = [meals |-> Null, goals |-> Null]
    /\ sqlInitialized = FALSE
    /\ sqlMeals = <<>>
    /\ sqlGoals = <<>>
    /\ latestGoals = NullGoals
    /\ lastOp = [op |-> "none"]
    /\ lastErr = [cache |-> "", sqlite |-> ""]
    /\ lastResult = [cache |-> <<>>, sqlite |-> <<>>]
    /\ now = FirstTime
    /\ ProviderInit

\* the call has completed on both stores: how it ended and what it gave on each
BothCompleted(op, cacheErr, cacheResult, sqliteErr, sqliteResult) ==
    /\ lastOp' = op
    /\ lastErr' = [cache |-> cacheErr, sqlite |-> sqliteErr]
    /\ lastResult' = [cache |-> cacheResult, sqlite |-> sqliteResult]

Both_addMeal(meal) ==
    /\ variant = "both"
    /\ Len(InitializedMeals) < MaxMeals /\ Len(sqlMeals) < MaxMeals
    /\ CacheDoSaveMeals(CacheUpdatedOnAdd(InitializedMeals, meal))
    /\ LET done == SqlInsertMeal(sqlMeals, meal)
       IN  /\ sqlMeals' = done.rows
           /\ BothCompleted([op |-> "addMeal", meal |-> meal], "", <<>>,
                            IF done.ok THEN "" ELSE "Failed to add meal", <<>>)
    /\ sqlInitialized' = TRUE
    /\ UNCHANGED <<envVars, callerVars, appVars, sqlGoals>>

Both_removeMeal(id) ==
    /\ variant = "both"
    /\ CacheDoSaveMeals(CacheUpdatedOnRemove(InitializedMeals, id))
    /\ sqlMeals' = SqlDeleteMeal(sqlMeals, id)
    /\ BothCompleted([op |-> "removeMeal", id |-> id], "", <<>>, "", <<>>)
    /\ sqlInitialized' = TRUE
    /\ UNCHANGED <<envVars, callerVars, appVars, sqlGoals>>

\* the call is made when the clock shows t: at once, or after time has passed
Both_saveDailyGoals(goals, t) ==
    /\ variant = "both"
    /\ Len(sqlGoals) < MaxGoalsRows
    /\ TimeLE(now, t)
    /\ now' = t
    /\ asyncStorage' = [asyncStorage EXCEPT !.goals = JSONStringify(goals)]
    /\ goalsCache' = goals
    /\ mealsCache' = InitializedMeals
    /\ isInitialized' = TRUE
    /\ sqlGoals' = Append(sqlGoals, SqlGoalsRow(goals, t))
    /\ sqlInitialized' = TRUE
    /\ latestGoals' = goals
    /\ BothCompleted([op |-> "saveDailyGoals", goals |-> goals], "", <<>>, "", <<>>)
    /\ UNCHANGED <<envVars, callerVars, facadeVars, sqlMeals>>

Both_clearAllData ==
    /\ variant = "both"
    /\ asyncStorage' = [meals |-> Null, goals |-> Null]
    /\ mealsCache' = <<>>
    /\ goalsCache' = NullGoals
    /\ isInitialized' = FALSE
    /\ sqlMeals' = <<>>
    /\ sqlGoals' = <<>>
    /\ sqlInitialized' = TRUE
    /\ latestGoals' = NullGoals
    /\ BothCompleted([op |-> "clearAllData"], "", <<>>, "", <<>>)
    /\ UNCHANGED <<envVars, callerVars, now, facadeVars>>

\* a query on both stores leaves the meals and goals of both as they are
BothQueried ==
    /\ CacheInitialize
    /\ sqlInitialized' = TRUE
    /\ UNCHANGED <<envVars, callerVars, appVars, sqlMeals, sqlGoals>>

Both_getMealsByDate(date) ==
    /\ variant = "both"
    /\ \E result \in SqlMealsByDate(sqlMeals, date) :
         BothCompleted([op |-> "getMealsByDate", date |-> date],
                       "", CacheMealsByDate(InitializedMeals, date), "", result)
    /\ BothQueried

Both_getMealsByMonth(month, year) ==
    /\ variant = "both"
    /\ \E result \in SqlMealsByMonth(sqlMeals, month, year) :
         BothCompleted([op |-> "getMealsByMonth", month |-> month, year |-> year],
                       "", CacheMealsByMonth(InitializedMeals, month, year), "", result)
    /\ BothQueried

Both_getMonthlySummary(month, year) ==
    /\ variant = "both"
    /\ \E meals \in SqlMealsByMonth(sqlMeals, month, year) :
         BothCompleted([op |-> "getMonthlySummary", month |-> month, year |-> year],
                       "", MonthlySummaryOf(CacheMealsByMonth(InitializedMeals, month, year),
                                            month, year),
                       "", MonthlySummaryOf(meals, month, year))
    /\ BothQueried

Both_loadDailyGoals ==
    /\ variant = "both"
    /\ \E result \in SqlLatestGoals(sqlGoals) :
         BothCompleted([op |-> "loadDailyGoals"], "", InitializedGoals, "", result)
    /\ BothQueried

BothNext ==
    \/ \E meal \in Meals : Both_addMeal(meal)
    \/ \E id \in Ids : Both_removeMeal(id)
    \/ \E goals \in GoalsInputs, t \in Times : Both_saveDailyGoals(goals, t)
    \/ Both_clearAllData
    \/ \E date \in Times : Both_getMealsByDate(date)
    \/ \E my \in Months : Both_getMealsByMonth(my[1], my[2])
    \/ \E my \in Months : Both_getMonthlySummary(my[1], my[2])
    \/ Both_loadDailyGoals

BothSpec == BothInit /\ [][BothNext]_vars

-----------------------------------------------------------------------------
(* MealProvider (context/MealContext.tsx) over the SQLite store.  A call is
   a sequence of steps, one from each await to the next; calls[c] holds
   where the call c stands and its local constants. *)

outcome == <<lastOp, lastErr, lastResult>>

InFlight(c) == calls[c].pc # "idle"
NoneInFlight == \A c \in CallNames : ~InFlight(c)
At(c, pc) == calls[c].pc = pc
Goto(c, frame) == calls' = [calls EXCEPT ![c] = frame]

\* the call goes on to its next await: nothing is reported yet
Awaits(c, frame) ==
    /\ Goto(c, frame)
    /\ UNCHANGED <<error, outcome>>

\* catch (err) { throw err; }: without setError(message)
Rejected_ErrorKept(c, op, message, err) ==
    /\ error' = error
    /\ Goto(c, Idle)
    /\ Completed(op, err, <<>>)

\* catch (err) { setError(message); throw err; }
Rejected(c, op, message, err) ==
    /\ error' = Some(message)
    /\ Goto(c, Idle)
    /\ Completed(op, err, <<>>)

\* setError(null) and the end of the try block: the promise resolves
Resolved(c, op) ==
    /\ error' = Null
    /\ Goto(c, Idle)
    /\ Completed(op, "", <<>>)

\* [newMeal, ...prevMeals] turned round
PrependMeal_Appends(meal, prevMeals) == Append(prevMeals, meal)

\* setMeals(prevMeals => [newMeal, ...prevMeals])
PrependMeal(meal, prevMeals) == <<meal>> \o prevMeals

\* meals.find(meal => meal.id === id): Null for undefined
FindMeal(list, id) ==
    IF HasId(list, id)
    THEN Some(list[CHOOSE i \in DOMAIN list :
                     /\ list[i].id = id
                     /\ \A j \in DOMAIN list : list[j].id = id => i <= j])
    ELSE Null

\* prevMeals.filter(meal => meal.id !== id)
WithoutId(list, id) == SelectSeqBy(list, { m \in Range(list) : m.id # id })

\* mealMonth === currentMonth && mealYear === currentYear, with the clock at t
IsCurrentMonth(timestamp, t) ==
    /\ GetMonth(timestamp) = GetMonth(t)
    /\ GetFullYear(timestamp) = GetFullYear(t)

\* the summaries sqliteDatabase.getMonthlySummary(month, year) may resolve with
SqlMonthlySummaries(rows, month, year) ==
    { MonthlySummaryOf(meals, month, year) : meals \in SqlMealsByMonth(rows, month, year) }

(* addMeal *)

AddMealOp(newMeal) == [op |-> "MealProvider.addMeal", meal |-> newMeal]

\* newMeal = {...meal, id: Math.random()..., timestamp: Date.now()}: id is
\* what the random number gave
addMeal_call(id, meal) ==
    /\ ~InFlight("add")
    /\ Len(sqlMeals) < MaxMeals
    /\ Goto("add", [pc |-> "store", newMeal |-> MakeMeal(id, now, meal)])
    /\ generated' = generated \cup {id}
    /\ UNCHANGED <<envVars, now, latestGoals, facadeState, cacheVars, sqlVars, outcome>>

\* addMeal called with what the recognition gave for the photo
Facade_addMeal_call(id) ==
    /\ addMeal_call(id, AnalysisOf(id))
    /\ UNCHANGED callerVars

\* await sqliteDatabase.addMeal(newMeal)
Facade_addMeal_store(ok) ==
    /\ At("add", "store")
    /\ LET newMeal == calls["add"].newMeal
           done == IF ok THEN SqlInsertMeal(sqlMeals, newMeal)
                   ELSE [ok |-> FALSE, rows |-> sqlMeals]
       IN  /\ sqlMeals' = done.rows
           /\ IF done.ok
              THEN Awaits("add", [pc |-> "stored", newMeal |-> newMeal])
              ELSE Rejected("add", AddMealOp(newMeal), "Failed to add meal to database",
                            "Failed to add meal")
    /\ sqlInitialized' = TRUE
    /\ UNCHANGED <<envVars, callerVars, now, latestGoals, dayMeals, isLoading, currentDate,
                   monthlySummary, dailyGoal, generated, cacheVars, sqlGoals>>

\* setMeals, and the comparison of the meal's month with the month of new Date()
Facade_addMeal_stored ==
    /\ At("add", "stored")
    /\ LET newMeal == calls["add"].newMeal
       IN  /\ dayMeals' = PrependMeal(newMeal, dayMeals)
           /\ IF IsCurrentMonth(newMeal.timestamp, now)
              THEN Awaits("add", [pc |-> "summary", newMeal |-> newMeal,
                                  currentMonth |-> GetMonth(now),
                                  currentYear |-> GetFullYear(now)])
              ELSE Resolved("add", AddMealOp(newMeal))
    /\ UNCHANGED <<envVars, callerVars, now, latestGoals, isLoading, currentDate,
                   monthlySummary,
                   dailyGoal, generated, cacheVars, sqlVars>>

\* await sqliteDatabase.getMonthlySummary(currentMonth, currentYear)
Facade_addMeal_summary ==
    /\ At("add", "summary")
    /\ LET frame == calls["add"]
       IN  \E summary \in SqlMonthlySummaries(sqlMeals, frame.currentMonth,
                                              frame.currentYear) :
              Awaits("add", [pc |-> "fetched", newMeal |-> frame.newMeal,
                             summary |-> summary])
    /\ sqlInitialized' = TRUE
    /\ UNCHANGED <<envVars, callerVars, now, latestGoals, dayMeals, isLoading, currentDate,
                   monthlySummary, dailyGoal, generated, cacheVars, sqlMeals, sqlGoals>>

\* setMonthlySummary(summary); setError(null)
Facade_addMeal_done ==
    /\ At("add", "fetched")
    /\ monthlySummary' = calls["add"].summary
    /\ Resolved("add", AddMealOp(calls["add"].newMeal))
    /\ UNCHANGED <<envVars, callerVars, now, latestGoals, dayMeals, isLoading, currentDate,
                   dailyGoal,
                   generated, cacheVars, sqlVars>>

(* removeMeal *)

\* removed: the meal the store held under the id when the DELETE ran, if any
RemoveMealOp(frame) ==
    [op |-> "MealProvider.removeMeal", id |-> frame.id, mealToRemove |-> frame.mealToRemove,
     removed |-> frame.removed]

\* mealToRemove = meals.find(...)
Facade_removeMeal_call(id) ==
    /\ ~InFlight("remove")
    /\ Goto("remove", [pc |-> "store", id |-> id, mealToRemove |-> FindMeal(dayMeals, id),
                       removed |-> Null])
    /\ UNCHANGED <<envVars, callerVars, now, latestGoals, facadeState, generated, cacheVars,
                   sqlVars,
                   outcome>>

\* await sqliteDatabase.removeMeal(id)
Facade_removeMeal_store(ok) ==
    /\ At("remove", "store")
    /\ LET frame == calls["remove"]
       IN  IF ok
           THEN /\ sqlMeals' = SqlDeleteMeal(sqlMeals, frame.id)
                /\ Awaits("remove", [frame EXCEPT !.pc = "stored",
                                                  !.removed = FindMeal(RowsToMeals(sqlMeals),
                                                                       frame.id)])
           ELSE /\ sqlMeals' = sqlMeals
                /\ Rejected("remove", RemoveMealOp(frame),
                            "Failed to remove meal from database", "Failed to remove meal")
    /\ sqlInitialized' = TRUE
    /\ UNCHANGED <<envVars, callerVars, now, latestGoals, dayMeals, isLoading, currentDate,
                   monthlySummary, dailyGoal, generated, cacheVars, sqlGoals>>

\* setMeals, and if (mealToRemove) the comparison of its month with the month
\* of new Date()
Facade_removeMeal_stored ==
    /\ At("remove", "stored")
    /\ LET frame == calls["remove"]
       IN  /\ dayMeals' = WithoutId(dayMeals, frame.id)
           /\ IF /\ frame.mealToRemove # Null
                 /\ IsCurrentMonth(frame.mealToRemove[1].timestamp, now)
              THEN Awaits("remove", [pc |-> "summary", id |-> frame.id,
                                     mealToRemove |-> frame.mealToRemove,
                                     removed |-> frame.removed,
                                     currentMonth |-> GetMonth(now),
                                     currentYear |-> GetFullYear(now)])
              ELSE Resolved("remove", RemoveMealOp(frame))
    /\ UNCHANGED <<envVars, callerVars, now, latestGoals, isLoading, currentDate,
                   monthlySummary,
                   dailyGoal, generated, cacheVars, sqlVars>>

\* await sqliteDatabase.getMonthlySummary(currentMonth, currentYear)
Facade_removeMeal_summary ==
    /\ At("remove", "summary")
    /\ LET frame == calls["remove"]
       IN  \E summary \in SqlMonthlySummaries(sqlMeals, frame.currentMonth,
                                              frame.currentYear) :
              Awaits("remove", [pc |-> "fetched", id |-> frame.id,
                                mealToRemove |-> frame.mealToRemove,
                                removed |-> frame.removed, summary |-> summary])
    /\ sqlInitialized' = TRUE
    /\ UNCHANGED <<envVars, callerVars, now, latestGoals, dayMeals, isLoading, currentDate,
                   monthlySummary, dailyGoal, generated, cacheVars, sqlMeals, sqlGoals>>

\* setMonthlySummary(summary); setError(null)
Facade_removeMeal_done ==
    /\ At("remove", "fetched")
    /\ monthlySummary' = calls["remove"].summary
    /\ Resolved("remove", RemoveMealOp(calls["remove"]))
    /\ UNCHANGED <<envVars, callerVars, now, latestGoals, dayMeals, isLoading, currentDate,
                   dailyGoal,
                   generated, cacheVars, sqlVars>>

(* updateDailyGoal *)

UpdateDailyGoalOp(newGoal) == [op |-> "MealProvider.updateDailyGoal", newGoal |-> newGoal]

\* the goals the user sets
NewGoals == {1800}

\* goals = {calories: newGoal, protein: 0, carbs: 0, fat: 0}
updateDailyGoal_call(newGoal) ==
    /\ ~InFlight("goal")
    /\ Len(sqlGoals) < MaxGoalsRows
    /\ Goto("goal", [pc |-> "store", newGoal |-> newGoal,
                     goals |-> [calories |-> newGoal, protein |-> 0, carbs |-> 0,
                                fat |-> 0]])
    /\ UNCHANGED <<envVars, now, latestGoals, facadeState, generated, cacheVars, sqlVars,
                   outcome>>

Facade_updateDailyGoal_call(newGoal) ==
    /\ updateDailyGoal_call(newGoal)
    /\ UNCHANGED callerVars

\* await sqliteDatabase.saveDailyGoals(goals)
updateDailyGoal_store(ok) ==
    /\ At("goal", "store")
    /\ LET frame == calls["goal"]
       IN  IF ok
           THEN /\ sqlGoals' = Append(sqlGoals, SqlGoalsRow(frame.goals, now))
                /\ latestGoals' = frame.goals
                /\ Awaits("goal", [pc |-> "stored", newGoal |-> frame.newGoal])
           ELSE /\ UNCHANGED <<sqlGoals, latestGoals>>
                /\ Rejected("goal", UpdateDailyGoalOp(frame.newGoal),
                            "Failed to update daily goal", "Failed to save daily goals")
    /\ sqlInitialized' = TRUE
    /\ UNCHANGED <<envVars, now, dayMeals, isLoading, currentDate, monthlySummary,
                   dailyGoal, generated, cacheVars, sqlMeals>>

Facade_updateDailyGoal_store(ok) ==
    /\ updateDailyGoal_store(ok)
    /\ UNCHANGED callerVars

\* setDailyGoal(newGoal); setError(null)
updateDailyGoal_done ==
    /\ At("goal", "stored")
    /\ dailyGoal' = calls["goal"].newGoal
    /\ Resolved("goal", UpdateDailyGoalOp(calls["goal"].newGoal))
    /\ UNCHANGED <<envVars, now, latestGoals, dayMeals, isLoading, currentDate,
                   monthlySummary, generated, cacheVars, sqlVars>>

Facade_updateDailyGoal_done ==
    /\ updateDailyGoal_done
    /\ UNCHANGED callerVars

(* loadInitialData, which the effect, refreshMeals and refreshCurrentDate
   call; c names the run: "load", or "refresh" for a run refreshCurrentDate
   starts while another may be in flight *)

LoadInitialDataOp(today) == [op |-> "MealProvider.loadInitialData", today |-> today]

\* catch (err) { setError(...) } finally { setIsLoading(false) }: no throw
LoadFailed(c, today) ==
    /\ error' = Some("Failed to load meals from database")
    /\ isLoading' = FALSE
    /\ Goto(c, Idle)
    /\ Completed(LoadInitialDataOp(today), "", <<>>)

\* refreshCurrentDate (setsDate) does setCurrentDate(new Date()) first;
\* setIsLoading(true); today = new Date()
loadInitialData_call(c, setsDate) ==
    /\ ~InFlight(c)
    /\ currentDate' = IF setsDate THEN now ELSE currentDate
    /\ isLoading' = TRUE
    /\ Goto(c, [pc |-> "read", today |-> now])
    /\ UNCHANGED <<envVars, callerVars, now, latestGoals, dayMeals, error, monthlySummary,
                   dailyGoal,
                   generated, cacheVars, sqlVars, outcome>>

\* await Promise.all([getMealsByDate(today), loadDailyGoals()])
loadInitialData_read(c, ok) ==
    /\ At(c, "read")
    /\ LET today == calls[c].today
       IN  IF ok
           THEN /\ \E loadedMeals \in SqlMealsByDate(sqlMeals, today),
                      goals \in SqlLatestGoals(sqlGoals) :
                      Goto(c, [pc |-> "loaded", today |-> today,
                               loadedMeals |-> loadedMeals, goals |-> goals])
                /\ UNCHANGED <<error, isLoading, outcome>>
           ELSE LoadFailed(c, today)
    /\ sqlInitialized' = TRUE
    /\ UNCHANGED <<envVars, callerVars, now, latestGoals, dayMeals, currentDate, monthlySummary,
                   dailyGoal, generated, cacheVars, sqlMeals, sqlGoals>>

\* setMeals(loadedMeals); if (goals) setDailyGoal(goals.calories)
loadInitialData_loaded(c) ==
    /\ At(c, "loaded")
    /\ LET frame == calls[c]
       IN  /\ dayMeals' = frame.loadedMeals
           /\ dailyGoal' = IF frame.goals # NullGoals THEN frame.goals.calories
                           ELSE dailyGoal
           /\ Goto(c, [pc |-> "summary", today |-> frame.today])
    /\ UNCHANGED <<envVars, callerVars, now, latestGoals, isLoading, error, currentDate,
                   monthlySummary,
                   generated, cacheVars, sqlVars, outcome>>

\* await sqliteDatabase.getMonthlySummary(today.getMonth(), today.getFullYear())
loadInitialData_summary(c) ==
    /\ At(c, "summary")
    /\ LET today == calls[c].today
       IN  /\ \E summary \in SqlMonthlySummaries(sqlMeals, GetMonth(today),
                                                 GetFullYear(today)) :
                 Goto(c, [pc |-> "fetched", today |-> today, summary |-> summary])
           /\ UNCHANGED <<error, isLoading, outcome>>
    /\ sqlInitialized' = TRUE
    /\ UNCHANGED <<envVars, callerVars, now, latestGoals, dayMeals, currentDate, monthlySummary,
                   dailyGoal, generated, cacheVars, sqlMeals, sqlGoals>>

\* setMonthlySummary(summary); setError(null); finally setIsLoading(false)
loadInitialData_done(c) ==
    /\ At(c, "fetched")
    /\ monthlySummary' = calls[c].summary
    /\ isLoading' = FALSE
    /\ Resolved(c, LoadInitialDataOp(calls[c].today))
    /\ UNCHANGED <<envVars, callerVars, now, latestGoals, dayMeals, currentDate, dailyGoal,
                   generated,
                   cacheVars, sqlVars>>

\* the run of the effect or of refreshMeals, and of a refreshCurrentDate
\* (setsDate) called with no run in flight
Facade_loadInitialData_call(setsDate) == loadInitialData_call("load", setsDate)
Facade_loadInitialData_read(ok) == loadInitialData_read("load", ok)
Facade_loadInitialData_loaded == loadInitialData_loaded("load")
Facade_loadInitialData_summary == loadInitialData_summary("load")
Facade_loadInitialData_done == loadInitialData_done("load")

\* refreshCurrentDate: setCurrentDate(new Date()); loadInitialData(), and the
\* run it starts
Facade_refreshCurrentDate == loadInitialData_call("refresh", TRUE)
Facade_refreshCurrentDate_read(ok) == loadInitialData_read("refresh", ok)
Facade_refreshCurrentDate_loaded == loadInitialData_loaded("refresh")
Facade_refreshCurrentDate_summary == loadInitialData_summary("refresh")
Facade_refreshCurrentDate_done == loadInitialData_done("refresh")

\* the value of totalCalories: meals.reduce((sum, meal) => sum + meal.calories, 0)
totalCalories == SumCalories(dayMeals)

(* The provider after its first render: the effect has called loadInitialData.
   One call at a time; the statement that reads the day or writes may fail
   (ok = FALSE), and time passes. *)

MountedInit(ws) ==
    /\ CallersInit
    /\ variant = "sqlite"
    /\ DeviceInit(ws)
    /\ mealsCache = <<>>
    /\ goalsCache = NullGoals
    /\ isInitialized = FALSE
    /\ asyncStorage = [meals |-> Null, goals |-> Null]
    /\ sqlInitialized = FALSE
    /\ sqlMeals = <<>>
    /\ sqlGoals = <<>>
    /\ latestGoals = NullGoals
    /\ lastOp = [op |-> "none"]
    /\ lastErr = ""
    /\ lastResult = <<>>
    /\ now = FirstTime
    /\ dayMeals = <<>>
    /\ isLoading = TRUE
    /\ error = Null
    /\ currentDate = now
    /\ monthlySummary = NullSummary
    /\ dailyGoal = 2000
    /\ calls = [c \in CallNames |-> IF c = "load" THEN [pc |-> "read", today |-> now]
                                    ELSE Idle]
    /\ generated = {}

FacadeInit == MountedInit({3})

FacadeNext ==
    \/ NoneInFlight /\ \E setsDate \in BOOLEAN : Facade_loadInitialData_call(setsDate)
    \/ \E ok \in BOOLEAN : Facade_loadInitialData_read(ok)
    \/ Facade_loadInitialData_loaded
    \/ Facade_loadInitialData_summary
    \/ Facade_loadInitialData_done
    \/ NoneInFlight /\ \E id \in Ids : Facade_addMeal_call(id)
    \/ \E ok \in BOOLEAN : Facade_addMeal_store(ok)
    \/ Facade_addMeal_stored
    \/ Facade_addMeal_summary
    \/ Facade_addMeal_done
    \/ NoneInFlight /\ \E id \in Ids : Facade_removeMeal_call(id)
    \/ \E ok \in BOOLEAN : Facade_removeMeal_store(ok)
    \/ Facade_removeMeal_stored
    \/ Facade_removeMeal_summary
    \/ Facade_removeMeal_done
    \/ NoneInFlight /\ \E newGoal \in NewGoals : Facade_updateDailyGoal_call(newGoal)
    \/ \E ok \in BOOLEAN : Facade_updateDailyGoal_store(ok)
    \/ Facade_updateDailyGoal_done
    \/ Tick

FacadeSpec == FacadeInit /\ [][FacadeNext]_vars

(* The provider with its calls interleaved at their awaits: a call may begin
   while others are in flight.  Every store call succeeds: the database does
   not fail and addMeal draws an id not drawn before; the clock stands still. *)

FacadeRaceNext ==
    \/ \E setsDate \in BOOLEAN : Facade_loadInitialData_call(setsDate)
    \/ Facade_loadInitialData_read(TRUE)
    \/ Facade_loadInitialData_loaded
    \/ Facade_loadInitialData_summary
    \/ Facade_loadInitialData_done
    \/ \E id \in Ids \ generated : Facade_addMeal_call(id)
    \/ Facade_addMeal_store(TRUE)
    \/ Facade_addMeal_stored
    \/ Facade_addMeal_summary
    \/ Facade_addMeal_done
    \/ \E id \in Ids : Facade_removeMeal_call(id)
    \/ Facade_removeMeal_store(TRUE)
    \/ Facade_removeMeal_stored
    \/ Facade_removeMeal_summary
    \/ Facade_removeMeal_done

FacadeRaceSpec == FacadeInit /\ [][FacadeRaceNext]_vars

(* The provider and the date check: refreshCurrentDate may be called at any
   time, also while the load of the effect or of refreshMeals is in flight;
   the reads of a load may fail, meals are added meanwhile, and time passes
   through the end of a day. *)

RefreshInit == MountedInit({1})

RefreshNext ==
    \/ Facade_refreshCurrentDate
    \/ \E ok \in BOOLEAN : Facade_refreshCurrentDate_read(ok)
    \/ Facade_refreshCurrentDate_loaded
    \/ Facade_refreshCurrentDate_summary
    \/ Facade_refreshCurrentDate_done
    \/ Facade_loadInitialData_call(FALSE)
    \/ \E ok \in BOOLEAN : Facade_loadInitialData_read(ok)
    \/ Facade_loadInitialData_loaded
    \/ Facade_loadInitialData_summary
    \/ Facade_loadInitialData_done
    \/ NoneInFlight /\ \E id \in Ids \ generated : Facade_addMeal_call(id)
    \/ Facade_addMeal_store(TRUE)
    \/ Facade_addMeal_stored
    \/ Facade_addMeal_summary
    \/ Facade_addMeal_done
    \/ Tick

RefreshSpec == RefreshInit /\ [][RefreshNext]_vars

(* analyzeFoodImage (services/openRouterService.ts).  A text is a sequence
   of pieces; an exception is its class and its message. *)

Exception(type, message) == [type |-> type, message |-> message]

\* what FileSystem.readAsStringAsync throws for a file it cannot read
FileReadErrors == { Exception("Error", <<"File is not readable">>) }

\* what fetch throws when the network is down, and when the request times out
NetworkRequestFailed == Exception("TypeError", <<"Network request failed">>)
FetchErrors == { NetworkRequestFailed,
                 Exception("TypeError", <<"Network request timed out">>) }

\* what response.json() throws for a body that is not JSON
JsonError == Exception("SyntaxError", <<"JSON Parse error">>)

\* the bodies of the responses: for a status that is not OK an object with a
\* message, one without, or no JSON; for 200 the recognition of a dish
\* (probability in thousandths), an empty object, null, or no JSON
ErrorBodies ==
    { [json |-> TRUE, message |-> <<"Invalid API key">>],
      [json |-> TRUE, message |-> <<>>, text |-> <<"{", "}">>],
      [json |-> FALSE] }
DataBodies ==
    { [json |-> TRUE, null |-> FALSE, category |-> Some([name |-> "pizza", probability |-> 874]),
       nutrition |-> Some([calories |-> 500])],
      [json |-> TRUE, null |-> FALSE, category |-> Null, nutrition |-> Null],
      [json |-> TRUE, null |-> TRUE],
      [json |-> FALSE] }
Responses ==
    { [ok |-> FALSE, status |-> st, body |-> b] : st \in {"401", "500"}, b \in ErrorBodies }
      \cup { [ok |-> TRUE, status |-> "200", body |-> b] : b \in DataBodies }

\* Math.round(probability * 100), probability given in thousandths
RoundPercent(thousandths) == (thousandths + 5) \div 10

\* the FoodAnalysis built from the data of a 200 response
FoodAnalysisOf(data) ==
    [foodItems |-> IF data.category # Null THEN <<data.category[1].name>> ELSE <<>>,
     estimatedCalories |-> IF data.nutrition # Null THEN data.nutrition[1].calories ELSE 0,
     confidence |-> IF data.category # Null THEN RoundPercent(data.category[1].probability)
                    ELSE 0]

\* `API request failed with status ${response.status}`, with `: ${detail}`
\* when the body of the response is JSON
ApiErrorMessage(response) ==
    <<"API request failed with status ", response.status>>
      \o (IF ~response.body.json THEN <<>>
          ELSE <<": ">> \o (IF response.body.message # <<>> THEN response.body.message
                            ELSE response.body.text))

NetworkMessage ==
    <<"Network connection failed. Please check your internet connection and try again.">>

\* the catch block with the test of the message left out
Rethrown_AnyTypeError(e) ==
    IF e.type = "TypeError" THEN Exception("Error", NetworkMessage) ELSE e

\* the catch block: what it throws for the exception e
Rethrown(e) ==
    IF e.type = "TypeError" /\ e.message = <<"Network request failed">>
    THEN Exception("Error", NetworkMessage)
    ELSE e

\* the call rejects: cause is what was thrown inside the try block
AnalysisRejects(cause) ==
    analysis' = [pc |-> "rejected", requests |-> analysis.requests, cause |-> cause,
                 error |-> Rethrown(cause)]

\* the call begins: FileSystem.readAsStringAsync is awaited
analyzeFoodImage_call(imageUri) ==
    /\ analysis = Idle
    /\ analysis' = [pc |-> "readFile", imageUri |-> imageUri, requests |-> 0]

\* await FileSystem.readAsStringAsync(imageUri, ...); then fetch is called
analyzeFoodImage_readFile(ok) ==
    /\ analysis.pc = "readFile"
    /\ IF ok
       THEN analysis' = [pc |-> "fetch", requests |-> analysis.requests + 1]
       ELSE \E e \in FileReadErrors : AnalysisRejects(e)
    /\ UNCHANGED <<envVars, appVars, cacheVars, sqlVars, outcome, screen, storeCalls>>

\* await fetch(API_URL, ...): a response, or fetch throws
analyzeFoodImage_fetch(ok) ==
    /\ analysis.pc = "fetch"
    /\ IF ok
       THEN \E response \in Responses :
              analysis' = [pc |-> "json", requests |-> analysis.requests,
                           response |-> response]
       ELSE \E e \in FetchErrors : AnalysisRejects(e)
    /\ UNCHANGED <<envVars, appVars, cacheVars, sqlVars, outcome, screen, storeCalls>>

\* await response.json(), of the error details or of the data, and the rest
\* of the try block
analyzeFoodImage_json ==
    /\ analysis.pc = "json"
    /\ LET response == analysis.response
       IN  IF ~response.ok
           THEN AnalysisRejects(Exception("Error", ApiErrorMessage(response)))
           ELSE IF ~response.body.json
           THEN AnalysisRejects(JsonError)
           ELSE IF response.body.null
           THEN AnalysisRejects(Exception("TypeError",
                                          <<"Cannot read property 'category' of null">>))
           ELSE analysis' = [pc |-> "resolved", requests |-> analysis.requests,
                             response |-> response,
                             result |-> FoodAnalysisOf(response.body)]
    /\ UNCHANGED <<envVars, appVars, cacheVars, sqlVars, outcome, screen, storeCalls>>

(* HomeScreen.analyzeFood ((tabs)/index.tsx) *)

\* the photo the user picks
ImageUris == { <<"file:///it", "'", "s.jpg">> }

\* setIsAnalyzing(true); setError(null); analyzeFoodImage(imageUri) is awaited
HomeScreen_analyzeFood(imageUri) ==
    /\ screen.analyzeFood = Idle
    /\ analyzeFoodImage_call(imageUri)
    /\ screen' = [screen EXCEPT !.isAnalyzing = TRUE, !.error = Null,
                                !.analyzeFood = [pc |-> "analysing", imageUri |-> imageUri]]
    /\ UNCHANGED <<envVars, appVars, cacheVars, sqlVars, outcome, storeCalls>>

\* the analysis resolved: addMeal({...}) is called and not awaited, the alert
\* 'Food Analysis Complete' is shown; finally setIsAnalyzing(false)
HomeScreen_analyzeFood_analysed(id) ==
    /\ screen.analyzeFood.pc = "analysing"
    /\ analysis.pc = "resolved"
    /\ addMeal_call(id, [imageUri |-> screen.analyzeFood.imageUri,
                         foodItems |-> analysis.result.foodItems,
                         calories |-> analysis.result.estimatedCalories,
                         confidence |-> analysis.result.confidence])
    /\ screen' = [screen EXCEPT !.alert = Some("Food Analysis Complete"),
                                !.isAnalyzing = FALSE, !.analyzeFood = Idle]
    /\ analysis' = Idle
    /\ UNCHANGED storeCalls

\* the analysis rejected: setError(error.message); the alert 'Error' is shown;
\* finally setIsAnalyzing(false)
HomeScreen_analyzeFood_failed ==
    /\ screen.analyzeFood.pc = "analysing"
    /\ analysis.pc = "rejected"
    /\ screen' = [screen EXCEPT !.error = Some(analysis.error.message),
                                !.alert = Some("Error"),
                                !.isAnalyzing = FALSE, !.analyzeFood = Idle]
    /\ analysis' = Idle
    /\ UNCHANGED <<envVars, appVars, cacheVars, sqlVars, outcome, storeCalls>>

(* The home screen over the provider: photos are analysed and the meals
   added; the file, the network, the service and the database may fail. *)

AnalyzeInit == MountedInit({1})

AnalyzeNext ==
    \/ \E imageUri \in ImageUris : HomeScreen_analyzeFood(imageUri)
    \/ \E ok \in BOOLEAN : analyzeFoodImage_readFile(ok)
    \/ \E ok \in BOOLEAN : analyzeFoodImage_fetch(ok)
    \/ analyzeFoodImage_json
    \/ \E id \in Ids : HomeScreen_analyzeFood_analysed(id)
    \/ HomeScreen_analyzeFood_failed
    \/ \E ok \in BOOLEAN : Facade_addMeal_store(ok)
    \/ Facade_addMeal_stored
    \/ Facade_addMeal_summary
    \/ Facade_addMeal_done
    \/ Facade_loadInitialData_read(TRUE)
    \/ Facade_loadInitialData_loaded
    \/ Facade_loadInitialData_summary
    \/ Facade_loadInitialData_done

AnalyzeSpec == AnalyzeInit /\ [][AnalyzeNext]_vars

(* HomeScreen: the goal editor ((tabs)/index.tsx) *)

UpperDigits == <<"0", "1", "2", "3", "4", "5", "6", "7", "8", "9",
                 "A", "B", "C", "D", "E", "F">>
LowerDigits == <<"0", "1", "2", "3", "4", "5", "6", "7", "8", "9",
                 "a", "b", "c", "d", "e", "f">>

\* the value of a character as a digit, -1 when it is none
DigitValue(c) ==
    IF \E i \in DOMAIN UpperDigits : UpperDigits[i] = c
    THEN (CHOOSE i \in DOMAIN UpperDigits : UpperDigits[i] = c) - 1
    ELSE IF \E i \in DOMAIN LowerDigits : LowerDigits[i] = c
    THEN (CHOOSE i \in DOMAIN LowerDigits : LowerDigits[i] = c) - 1
    ELSE -1

\* Number.prototype.toString of a natural number
RECURSIVE NumberToString(_)
NumberToString(n) ==
    IF n < 10 THEN <<UpperDigits[n + 1]>>
    ELSE NumberToString(n \div 10) \o <<UpperDigits[(n % 10) + 1]>>

RECURSIVE StripLeadingSpace(_)
StripLeadingSpace(s) ==
    IF s # <<>> /\ Head(s) = " " THEN StripLeadingSpace(Tail(s)) ELSE s

\* the longest prefix of s of digits of the radix, as a number; Null (NaN)
\* when s does not begin with a digit
RECURSIVE ParseDigits(_, _, _, _)
ParseDigits(s, radix, value, any) ==
    IF s # <<>> /\ DigitValue(Head(s)) >= 0 /\ DigitValue(Head(s)) < radix
    THEN ParseDigits(Tail(s), radix, value * radix + DigitValue(Head(s)), TRUE)
    ELSE IF any THEN Some(value) ELSE Null

\* parseInt(text): leading white space, a sign, 0x or 0X for radix 16, then
\* the digits up to the first character that is none; Null is NaN
parseInt(text) ==
    LET s == StripLeadingSpace(text)
        signed == s # <<>> /\ Head(s) \in {"+", "-"}
        unsigned == IF signed THEN Tail(s) ELSE s
        hex == Len(unsigned) >= 2 /\ unsigned[1] = "0" /\ unsigned[2] \in {"x", "X"}
        value == IF hex THEN ParseDigits(Tail(Tail(unsigned)), 16, 0, FALSE)
                 ELSE ParseDigits(unsigned, 10, 0, FALSE)
    IN  IF value = Null THEN Null
        ELSE IF signed /\ Head(s) = "-" THEN Some(0 - value[1])
        ELSE value

\* the texts the user enters
GoalTexts ==
    { <<>>, <<"a", "b", "c">>, <<"4", "9", "9">>, <<"5", "0", "0">>,
      <<"1", "0", "0", "0", "0">>, <<"1", "0", "0", "0", "1">>,
      <<"6", "0", "0", "a", "b", "c">>, <<" ", "7", "5", "0">>,
      <<"-", "5", "0", "0">>, <<"0", "x", "1", "F", "4">>,
      <<"9", "9", "9", "9", ".", "5">>, <<"1", "e", "4">> }

\* the test of handleUpdateGoal without its upper bound
IsValidGoal_NoUpperBound(goal) ==
    ~(goal = Null \/ goal[1] < 500)

\* !(isNaN(goal) || goal < 500 || goal > 10000)
IsValidGoal(goal) ==
    ~(goal = Null \/ goal[1] < 500 \/ goal[1] > 10000)

\* the pencil: setNewGoal(dailyGoal.toString()); setIsEditingGoal(true)
HomeScreen_editGoal ==
    /\ screen.alert = Null
    /\ ~screen.isEditingGoal
    /\ screen' = [screen EXCEPT !.newGoal = NumberToString(dailyGoal), !.isEditingGoal = TRUE]
    /\ UNCHANGED <<envVars, appVars, cacheVars, sqlVars, outcome, analysis, storeCalls>>

\* onChangeText={setNewGoal}
HomeScreen_setNewGoal(text) ==
    /\ screen.alert = Null
    /\ screen.isEditingGoal
    /\ screen' = [screen EXCEPT !.newGoal = text]
    /\ UNCHANGED <<envVars, appVars, cacheVars, sqlVars, outcome, analysis, storeCalls>>

\* Cancel, onRequestClose: setIsEditingGoal(false)
HomeScreen_cancelGoal ==
    /\ screen.alert = Null
    /\ screen.isEditingGoal
    /\ screen' = [screen EXCEPT !.isEditingGoal = FALSE]
    /\ UNCHANGED <<envVars, appVars, cacheVars, sqlVars, outcome, analysis, storeCalls>>

\* the user dismisses the alert
HomeScreen_dismissAlert ==
    /\ screen.alert # Null
    /\ screen' = [screen EXCEPT !.alert = Null]
    /\ UNCHANGED <<envVars, appVars, cacheVars, sqlVars, outcome, analysis, storeCalls>>

\* Save: goal = parseInt(newGoal); the alert 'Invalid Goal' and return, or
\* updateDailyGoal(goal) is awaited
HomeScreen_handleUpdateGoal ==
    /\ screen.alert = Null
    /\ screen.isEditingGoal
    /\ screen.handleUpdateGoal = Idle
    /\ LET goal == parseInt(screen.newGoal)
       IN  IF IsValidGoal(goal)
           THEN /\ updateDailyGoal_call(goal[1])
                /\ screen' = [screen EXCEPT !.handleUpdateGoal = [pc |-> "awaiting"]]
           ELSE /\ screen' = [screen EXCEPT !.alert = Some("Invalid Goal")]
                /\ UNCHANGED <<envVars, appVars, cacheVars, sqlVars, outcome>>
    /\ UNCHANGED <<analysis, storeCalls>>

\* the store call of updateDailyGoal settles; when it failed updateDailyGoal
\* rejects and the catch block shows the alert 'Error'
HomeScreen_handleUpdateGoal_store(ok) ==
    /\ screen.handleUpdateGoal.pc = "awaiting"
    /\ updateDailyGoal_store(ok)
    /\ screen' = IF ok THEN screen
                 ELSE [screen EXCEPT !.alert = Some("Error"), !.handleUpdateGoal = Idle]
    /\ UNCHANGED <<analysis, storeCalls>>

\* updateDailyGoal resolves: setIsEditingGoal(false)
HomeScreen_handleUpdateGoal_done ==
    /\ screen.handleUpdateGoal.pc = "awaiting"
    /\ updateDailyGoal_done
    /\ screen' = [screen EXCEPT !.isEditingGoal = FALSE, !.handleUpdateGoal = Idle]
    /\ UNCHANGED <<analysis, storeCalls>>

(* The goal editor over the provider: the user opens it, types, saves and
   cancels; the database may fail. *)

GoalScreenInit == MountedInit({1})

GoalScreenNext ==
    \/ HomeScreen_editGoal
    \/ \E text \in GoalTexts : HomeScreen_setNewGoal(text)
    \/ HomeScreen_cancelGoal
    \/ HomeScreen_dismissAlert
    \/ HomeScreen_handleUpdateGoal
    \/ \E ok \in BOOLEAN : HomeScreen_handleUpdateGoal_store(ok)
    \/ HomeScreen_handleUpdateGoal_done
    \/ Facade_loadInitialData_read(TRUE)
    \/ Facade_loadInitialData_loaded
    \/ Facade_loadInitialData_summary
    \/ Facade_loadInitialData_done

GoalScreenSpec == GoalScreenInit /\ [][GoalScreenNext]_vars

(* InMemoryDatabase with its awaits: the calls of the callers in
   StoreCallers suspend at AsyncStorage.getItem and AsyncStorage.setItem and
   resume later; storeCalls[c] is the call of caller c.  A frame keeps the
   operation, and persisted, the meals in storage when the call began. *)

Running(c) == storeCalls[c].pc \notin {"idle", "resolved", "rejected"}
NoneRunning == \A c \in StoreCallers : ~Running(c)

AddMealCall(meal) == [name |-> "addMeal", meal |-> meal]
RemoveMealCall(id) == [name |-> "removeMeal", id |-> id]
SaveMealsCall(meals) == [name |-> "saveMeals", meals |-> meals]

\* the list the call hands to saveToStorage, computed from the cache
UpdatedMeals(op, cache) ==
    CASE op.name = "addMeal" -> CacheUpdatedOnAdd(cache, op.meal)
      [] op.name = "removeMeal" -> CacheUpdatedOnRemove(cache, op.id)
      [] op.name = "saveMeals" -> op.meals

\* the message of the Error the catch block of the operation throws
FailureMessage(op) ==
    CASE op.name = "addMeal" -> "Failed to add meal"
      [] op.name = "removeMeal" -> "Failed to remove meal"
      [] op.name = "saveMeals" -> "Failed to save meals"

\* the meals the callers add, and the lists they save
CallerMeals == { m \in Meals : m.timestamp = FirstTime }
CallerLists == { <<>> } \cup { <<m>> : m \in CallerMeals }

\* the call begins with initialize(): getItem is awaited when the store is
\* not initialized, else the await of initialize() yields
Cache_call(c, op) ==
    /\ variant = "cache"
    /\ ~Running(c)
    /\ storeCalls' = [storeCalls EXCEPT ![c] =
         [pc |-> IF isInitialized THEN "initialized" ELSE "getItem",
          op |-> op, persisted |-> PersistedMeals]]
    /\ UNCHANGED <<envVars, appVars, cacheVars, sqlVars, outcome, screen, analysis>>

\* the meals a call may add without the store growing over MaxMeals
CanAdd(c) ==
    LET held == IF Len(mealsCache) > Len(PersistedMeals) THEN Len(mealsCache)
                ELSE Len(PersistedMeals)
        adding == { d \in StoreCallers : Running(d) /\ storeCalls[d].op.name = "addMeal" }
    IN  held + Cardinality(adding) < MaxMeals

Cache_addMeal_call(c, meal) == CanAdd(c) /\ Cache_call(c, AddMealCall(meal))
Cache_removeMeal_call(c, id) == Cache_call(c, RemoveMealCall(id))
Cache_saveMeals_call(c, meals) == Cache_call(c, SaveMealsCall(meals))

\* loadFromStorage: await AsyncStorage.getItem(key) for the three keys; a
\* read that fails gives the default value
Cache_getItem(c, ok) ==
    /\ storeCalls[c].pc = "getItem"
    /\ storeCalls' = [storeCalls EXCEPT ![c] =
         [pc |-> "loaded", op |-> @.op, persisted |-> @.persisted,
          meals |-> IF ok THEN loadFromStorage(asyncStorage.meals, <<>>) ELSE <<>>,
          goals |-> IF ok THEN loadFromStorage(asyncStorage.goals, NullGoals)
                    ELSE NullGoals]]
    /\ UNCHANGED <<envVars, appVars, cacheVars, sqlVars, outcome, screen, analysis>>

\* the operation after await this.initialize(): updatedMeals from the cache,
\* saveMeals, saveToStorage, and AsyncStorage.setItem is awaited
SetItemBegins(c, cache) ==
    storeCalls' = [storeCalls EXCEPT ![c] =
         [pc |-> "setItem", op |-> @.op, persisted |-> @.persisted,
          updatedMeals |-> UpdatedMeals(@.op, cache)]]

\* initialize() after Promise.all: the caches are assigned; the operation
\* goes on
Cache_loaded(c) ==
    /\ storeCalls[c].pc = "loaded"
    /\ mealsCache' = storeCalls[c].meals
    /\ goalsCache' = storeCalls[c].goals
    /\ isInitialized' = TRUE
    /\ SetItemBegins(c, mealsCache')
    /\ UNCHANGED <<envVars, appVars, asyncStorage, sqlVars, outcome, screen, analysis>>

\* initialize() found the store initialized: the operation goes on
Cache_initialized(c) ==
    /\ storeCalls[c].pc = "initialized"
    /\ SetItemBegins(c, mealsCache)
    /\ UNCHANGED <<envVars, appVars, cacheVars, sqlVars, outcome, screen, analysis>>

\* saveToStorage: await AsyncStorage.setItem(key, JSON.stringify(data)); when
\* it fails the catch blocks throw and the call rejects
Cache_setItem(c, ok) ==
    /\ storeCalls[c].pc = "setItem"
    /\ IF ok
       THEN /\ asyncStorage' = [asyncStorage EXCEPT
                                  !.meals = JSONStringify(storeCalls[c].updatedMeals)]
            /\ storeCalls' = [storeCalls EXCEPT ![c].pc = "written"]
       ELSE /\ UNCHANGED asyncStorage
            /\ storeCalls' = [storeCalls EXCEPT ![c] =
                 [pc |-> "rejected", op |-> @.op, persisted |-> @.persisted,
                  error |-> FailureMessage(@.op)]]
    /\ UNCHANGED <<envVars, appVars, mealsCache, goalsCache, isInitialized, sqlVars,
                   outcome, screen, analysis>>

\* saveMeals after the write: this.mealsCache = meals; the call resolves
Cache_written(c) ==
    /\ storeCalls[c].pc = "written"
    /\ mealsCache' = storeCalls[c].updatedMeals
    /\ storeCalls' = [storeCalls EXCEPT ![c] =
         [pc |-> "resolved", op |-> @.op, persisted |-> @.persisted]]
    /\ UNCHANGED <<envVars, appVars, goalsCache, isInitialized, asyncStorage, sqlVars,
                   outcome, screen, analysis>>

\* the store of a device that may hold a meal saved by an earlier run
CacheInit ==
    /\ variant = "cache"
    /\ DeviceInit({1})
    /\ mealsCache = <<>>
    /\ goalsCache = NullGoals
    /\ isInitialized = FALSE
    /\ \E saved \in CallerLists :
         asyncStorage = [meals |-> IF saved = <<>> THEN Null ELSE JSONStringify(saved),
                         goals |-> Null]
    /\ sqlInitialized = FALSE
    /\ sqlMeals = <<>>
    /\ sqlGoals = <<>>
    /\ latestGoals = NullGoals
    /\ lastOp = [op |-> "none"]
    /\ lastErr = ""
    /\ lastResult = <<>>
    /\ now = FirstTime
    /\ ProviderInit

(* Two callers add meals; their calls interleave at the awaits; storage does
   not fail. *)
CacheRaceNext ==
    \/ \E c \in StoreCallers, meal \in CallerMeals : Cache_addMeal_call(c, meal)
    \/ \E c \in StoreCallers : Cache_getItem(c, TRUE)
    \/ \E c \in StoreCallers : Cache_loaded(c)
    \/ \E c \in StoreCallers : Cache_initialized(c)
    \/ \E c \in StoreCallers : Cache_setItem(c, TRUE)
    \/ \E c \in StoreCallers : Cache_written(c)

CacheRaceSpec == CacheInit /\ [][CacheRaceNext]_vars

(* One call at a time; reads and writes of storage may fail. *)
CacheFaultNext ==
    \/ NoneRunning /\ \E c \in StoreCallers, meal \in CallerMeals : Cache_addMeal_call(c, meal)
    \/ NoneRunning /\ \E c \in StoreCallers, id \in Ids : Cache_removeMeal_call(c, id)
    \/ NoneRunning /\ \E c \in StoreCallers, meals \in CallerLists :
                        Cache_saveMeals_call(c, meals)
    \/ \E c \in StoreCallers, ok \in BOOLEAN : Cache_getItem(c, ok)
    \/ \E c \in StoreCallers : Cache_loaded(c)
    \/ \E c \in StoreCallers : Cache_initialized(c)
    \/ \E c \in StoreCallers, ok \in BOOLEAN : Cache_setItem(c, ok)
    \/ \E c \in StoreCallers : Cache_written(c)

CacheFaultSpec == CacheInit /\ [][CacheFaultNext]_vars

(* SQLiteDatabaseService called with any list of meals: saveMeals is given
   lists that name an id twice as well *)

\* the lists saveMeals is called with: any meals logged at the first time of
\* the window, an id possibly more than once
SaveMealsLists ==
    UNION { [1..n -> { m \in Meals : m.timestamp = FirstTime }] : n \in 0..MaxMeals }

SaveMealsInit == Init /\ variant = "sqlite"

SaveMealsNext ==
    \/ \E meals \in SaveMealsLists : SQLite_saveMeals(meals)
    \/ \E meal \in Meals : SQLite_addMeal(meal)
    \/ \E id \in Ids : SQLite_removeMeal(id)
    \/ SQLite_loadMeals

SaveMealsSpec == SaveMealsInit /\ [][SaveMealsNext]_vars

-----------------------------------------------------------------------------
(* C1 *)

-----------------------------------------------------------------------------
(* C2 *)

\* C2: in every reachable state of either variant no two stored meals have the
\* same id.
C2_UniqueIds ==
    \A i, j \in DOMAIN StoredMeals : StoredMeals[i].id = StoredMeals[j].id => i = j

-----------------------------------------------------------------------------
(* C3 *)

\* C3: addMeal(meal) with an id that is stored rejects with 'Failed to add
\* meal' and leaves the stored meals exactly as they were.
C3_RejectsDuplicate ==
    [][ (lastOp'.op = "addMeal" /\ lastOp'.stored) =>
          (lastErr' = "Failed to add meal" /\ StoredMeals' = StoredMeals) ]_vars

-----------------------------------------------------------------------------
(* C4 *)

-----------------------------------------------------------------------------
(* C5 *)

\* the first millisecond of date's local calendar day
LocalMidnight(date) == UTCOf([day |-> LocalTime(date).day, ms |-> 0])

\* localMidnight(date) <= t < localMidnight(date) + 1 day
InLocalDay(t, date) ==
    LET midnight == LocalMidnight(date)
    IN  TimeLE(midnight, t) /\ TimeLT(t, [day |-> midnight.day + 1, ms |-> midnight.ms])

\* the elements of s that are in the set keep, in s's order
Only(s, keep) == SelectSeqBy(s, keep)

\* C5: getMealsByDate(date) returns exactly the stored meals whose timestamp t
\* has localMidnight(date) <= t < localMidnight(date) + 1 day; so it returns a
\* stored meal at the local midnight of date and none that is 1 ms before it.
C5_DayBucket ==
    (lastOp.op = "getMealsByDate" /\ lastErr = "") =>
        /\ SameElements(lastResult,
                        Only(StoredMeals, { m \in Range(StoredMeals) :
                                              InLocalDay(m.timestamp, lastOp.date) }))
        /\ \A m \in Range(StoredMeals) :
             /\ m.timestamp = LocalMidnight(lastOp.date) => m \in Range(lastResult)
             /\ TimeValue(m.timestamp.day, m.timestamp.ms + 1) = LocalMidnight(lastOp.date)
                   => m \notin Range(lastResult)

\* the store holds a meal at a local midnight and one 1 ms before it, and the
\* query for the new day has returned the first and not the second
C5_Witness ==
    /\ lastOp.op = "getMealsByDate" /\ lastErr = ""
    /\ \E m \in Range(lastResult) : m.timestamp = LocalMidnight(lastOp.date)
    /\ \E m \in Range(StoredMeals) :
         /\ TimeValue(m.timestamp.day, m.timestamp.ms + 1) = LocalMidnight(lastOp.date)
         /\ m \notin Range(lastResult)

-----------------------------------------------------------------------------
(* C6 *)

\* C6: the list getMealsByDate returns is ordered by timestamp descending, in
\* whatever order the meals were added, in both variants.
C6_DescendingOrder ==
    (lastOp.op = "getMealsByDate" /\ lastErr = "") => IsTimestampDesc(lastResult)

-----------------------------------------------------------------------------
(* C7 *)

\* day 1 00:00:00.000 and last day 23:59:59.999, local, of the calendar month
MonthFirstMs(month, year) ==
    UTCOf([day |-> DaysBeforeYear(year) + DaysBeforeMonth(year, month), ms |-> 0])
MonthLastMs(month, year) ==
    UTCOf([day |-> DaysBeforeYear(year) + DaysBeforeMonth(year, month)
                     + DaysInMonth(year, month) - 1,
           ms |-> MsPerDay - 1])

\* C7: getMealsByMonth(month, year) returns exactly the stored meals whose
\* timestamp lies between day 1 00:00:00.000 and the last day 23:59:59.999 of
\* the month, both included, in local time; the last day is the 28th, 29th,
\* 30th or 31st as the calendar has it, also for month = 11.
C7_MonthBucket ==
    (lastOp.op = "getMealsByMonth" /\ lastErr = "") =>
        SameElements(lastResult,
                     Only(StoredMeals,
                          { m \in Range(StoredMeals) :
                              /\ TimeLE(MonthFirstMs(lastOp.month, lastOp.year), m.timestamp)
                              /\ TimeLE(m.timestamp, MonthLastMs(lastOp.month, lastOp.year)) }))

\* the query for a December has returned a meal of December 31 23:59:59.999
\* and not the stored meal of the millisecond after it
C7_Witness ==
    /\ lastOp.op = "getMealsByMonth" /\ lastErr = "" /\ lastOp.month = 11
    /\ \E m \in Range(lastResult) : m.timestamp = MonthLastMs(11, lastOp.year)
    /\ \E m \in Range(StoredMeals) :
         /\ m.timestamp = MonthFirstMs(0, lastOp.year + 1)
         /\ m \notin Range(lastResult)

-----------------------------------------------------------------------------
(* C8 *)

RECURSIVE CaloriesOf(_)
\* the sum of the calories of the meals of s
CaloriesOf(s) == IF s = <<>> THEN 0 ELSE Head(s).calories + CaloriesOf(Tail(s))

\* the stored meals whose local calendar date falls in the month
StoredInMonth(month, year) ==
    Only(StoredMeals, { m \in Range(StoredMeals) :
                          GetMonth(m.timestamp) = month /\ GetFullYear(m.timestamp) = year })

\* C8: getMonthlySummary(month, year).totalCalories is the sum of the calories
\* of the stored meals whose local calendar date falls in that month.
C8_TotalCalories ==
    (lastOp.op = "getMonthlySummary" /\ lastErr = "") =>
        lastResult.totalCalories = CaloriesOf(StoredInMonth(lastOp.month, lastOp.year))

\* a summary has been computed on a store that holds a meal of the month and a
\* meal of another month
C8_Witness ==
    /\ lastOp.op = "getMonthlySummary" /\ lastErr = ""
    /\ lastResult.totalCalories > 0
    /\ lastResult.totalCalories < CaloriesOf(StoredMeals)

-----------------------------------------------------------------------------
(* C9 *)

RECURSIVE SumOverKeys(_, _, _)
\* the sum of f[k][field] over the keys k
SumOverKeys(f, keys, field) ==
    IF keys = {} THEN 0
    ELSE LET k == CHOOSE x \in keys : TRUE
         IN  f[k][field] + SumOverKeys(f, keys \ {k}, field)

\* C9: a summary's totalMeals is the sum of the meals counts of dailyAverages,
\* and the number of meals getMealsByMonth returns for the same month and year
\* on the same store content.
C9_TotalMeals ==
    (lastOp.op = "getMonthlySummary" /\ lastErr = "") =>
        /\ lastResult.totalMeals =
              SumOverKeys(lastResult.dailyAverages, DOMAIN lastResult.dailyAverages, "meals")
        /\ \A meals \in MealsByMonth(lastOp.month, lastOp.year) :
              lastResult.totalMeals = Len(meals)

\* a summary of two meals of one day has been computed
C9_Witness ==
    /\ lastOp.op = "getMonthlySummary" /\ lastErr = ""
    /\ lastResult.totalMeals = 2
    /\ Cardinality(DOMAIN lastResult.dailyAverages) = 1

-----------------------------------------------------------------------------
(* C10 *)

\* the stored meals whose local date is the date written as key
StoredOnDate(key) ==
    Only(StoredMeals,
         { m \in Range(StoredMeals) :
             DateKey(GetFullYear(m.timestamp), GetMonth(m.timestamp), GetDate(m.timestamp))
               = key })

\* C10: for every key d of a summary's dailyAverages, the entry's calories is
\* the sum of the calories, and its meals the number, of the stored meals whose
\* local date is d; the calories of the entries add up to totalCalories.
C10_DailyAverages ==
    (lastOp.op = "getMonthlySummary" /\ lastErr = "") =>
        /\ \A d \in DOMAIN lastResult.dailyAverages :
              lastResult.dailyAverages[d] =
                  [calories |-> CaloriesOf(StoredOnDate(d)), meals |-> Len(StoredOnDate(d))]
        /\ SumOverKeys(lastResult.dailyAverages, DOMAIN lastResult.dailyAverages, "calories")
              = lastResult.totalCalories

\* meals of 500 and 300 of 2024-01-03 have given {calories: 800, meals: 2}
C10_Witness ==
    /\ lastOp.op = "getMonthlySummary" /\ lastErr = ""
    /\ "2024-01-03" \in DOMAIN lastResult.dailyAverages
    /\ lastResult.dailyAverages["2024-01-03"] = [calories |-> 800, meals |-> 2]

-----------------------------------------------------------------------------
(* C11 *)

\* the keys YYYY-MM-DD of the calendar days of the month
DatesOfMonth(month, year) == { DateKey(year, month, d) : d \in 1..DaysInMonth(year, month) }

\* C11: a summary's dailyAverages has no entry with meals = 0 (a day without
\* meals has no entry), and every key is a date of the requested month and
\* year.
C11_NoEmptyDays ==
    (lastOp.op = "getMonthlySummary" /\ lastErr = "") =>
        \A d \in DOMAIN lastResult.dailyAverages :
            /\ lastResult.dailyAverages[d].meals >= 1
            /\ d \in DatesOfMonth(lastOp.month, lastOp.year)

\* a summary with one entry has been computed on a store that also holds a
\* meal of another month
C11_Witness ==
    /\ lastOp.op = "getMonthlySummary" /\ lastErr = ""
    /\ Cardinality(DOMAIN lastResult.dailyAverages) = 1
    /\ lastResult.totalMeals = 1
    /\ Len(StoredMeals) = 2

-----------------------------------------------------------------------------
(* C12 *)

\* C12: averageCalories is totalCalories divided by the number of calendar
\* days of the requested month, 28 to 31, whatever the number of days that
\* have meals: averageCalories * daysInMonth = totalCalories; it is 0 when the
\* month has no meals.
C12_AverageCalories ==
    (lastOp.op = "getMonthlySummary" /\ lastErr = "") =>
        LET avg == lastResult.averageCalories
            daysInMonth == DaysInMonth(lastOp.year, lastOp.month)
        IN  /\ daysInMonth \in 28..31
            /\ avg.den > 0
            /\ avg.num * daysInMonth = lastResult.totalCalories * avg.den
            /\ lastResult.totalMeals = 0 => avg.num = 0

\* the summary of a February of 29 days with meals on one day only
C12_Witness ==
    /\ lastOp.op = "getMonthlySummary" /\ lastErr = ""
    /\ lastOp.month = 1 /\ lastOp.year = 2024
    /\ lastResult.totalCalories > 0
    /\ Cardinality(DOMAIN lastResult.dailyAverages) = 1
    /\ lastResult.averageCalories = [num |-> lastResult.totalCalories, den |-> 29]

-----------------------------------------------------------------------------
(* C13 *)

\* the store holds no meals and no goals: every query for a date or a month
\* may only return the empty list and loadDailyGoals only null, in this
\* session and in the next
StoreIsEmpty ==
    /\ StoredMeals = <<>> /\ PersistedMeals = <<>>
    /\ StoredGoals = {NullGoals} /\ PersistedGoals = {NullGoals}
    /\ \A date \in Times : MealsByDate(date) = {<<>>}
    /\ \A my \in Months : MealsByMonth(my[1], my[2]) = {<<>>}

\* C13: when clearAllData() has resolved the store holds no meals and no
\* goals, and a clearAllData() that follows it resolves too and leaves the
\* store, its caches and its storage as the first one left them.
C13_ClearIsIdempotent ==
    [][ lastOp'.op = "clearAllData" =>
          /\ lastErr' = ""
          /\ StoreIsEmpty'
          /\ lastOp'.again =>
                /\ StoreIsEmpty
                /\ <<cacheVars, sqlMeals, sqlGoals>>' = <<cacheVars, sqlMeals, sqlGoals>> ]_vars

\* clearAllData has resolved a second time in a row, the first on a store
\* that held meals and goals
C13_Witness ==
    /\ lastOp.op = "clearAllData" /\ lastErr = ""
    /\ lastOp.again
    /\ lastOp.first.meals > 0 /\ lastOp.first.goals

-----------------------------------------------------------------------------
(* C14 *)

\* C14: loadDailyGoals returns the goals of the saveDailyGoals call that
\* resolved last, also when that call and the one before it read the same
\* millisecond from Date.now(); it returns null when no goals were saved.
C14_LatestGoalsWin ==
    (lastOp.op = "loadDailyGoals" /\ lastErr = "") => lastResult = latestGoals

-----------------------------------------------------------------------------
(* C15 *)

\* C15: a call made on both stores after the same sequence of addMeal,
\* removeMeal, saveDailyGoals and clearAllData calls resolves in both or
\* rejects in both, and a query gives the same result in both: the same
\* elements in the same order.
C15_SameBehaviour ==
    /\ (lastErr.cache = "") <=> (lastErr.sqlite = "")
    /\ lastResult.cache = lastResult.sqlite

-----------------------------------------------------------------------------
(* C16 *)

\* MealProvider.addMeal begins: the step that builds newMeal
AddMealBegins == ~InFlight("add") /\ calls'["add"].pc = "store"

\* C16: every id MealProvider.addMeal generates is new: it is the id of no
\* meal addMeal generated before, stored or removed since.
C16_FreshIds ==
    [][ AddMealBegins =>
          /\ calls'["add"].newMeal.id \notin generated
          /\ ~HasId(sqlMeals, calls'["add"].newMeal.id) ]_vars

-----------------------------------------------------------------------------
(* C17 *)

\* the calls that change the store
Mutations == {"add", "remove", "goal"}

\* the call c settles in this step
Settles(c) == InFlight(c) /\ calls'[c].pc = "idle"

\* C17: when the store call of addMeal, removeMeal or updateDailyGoal fails,
\* the promise rejects and error is a message; when the call resolves, error
\* is null.
C17_ErrorReporting ==
    [][ \A c \in Mutations :
          /\ (At(c, "store") /\ Settles(c)) => (lastErr' # "" /\ error' # Null)
          /\ (Settles(c) /\ lastErr' = "") => error' = Null ]_vars

\* updateDailyGoal rejected, and error is its message
C17_Witness ==
    /\ lastOp.op = "MealProvider.updateDailyGoal"
    /\ lastErr # ""
    /\ error = Some("Failed to update daily goal")
    /\ sqlGoals = <<>>

-----------------------------------------------------------------------------
(* C18 *)

\* the step of the call c that leaves its await pc
StepFrom(c, pc) == At(c, pc) /\ calls'[c] # calls[c]

\* the call c resolves in this step
Resolves(c) == Settles(c) /\ lastErr' = ""

\* the store holds the meal, as it was given
Stores(rows, meal) == meal \in Range(RowsToMeals(rows))

\* the summary counts a meal of the local day of timestamp
CountsDayOf(summary, timestamp) ==
    /\ summary # NullSummary
    /\ ToLocaleDateString(timestamp) \in DOMAIN summary.dailyAverages

\* what addMeal does whatever the clock: the timestamp is the time of the
\* call, a refused store call changes nothing, the store then holds the meal
\* and the day list is the meal followed by the list as it was
AddMealStoresAndPrepends ==
    /\ AddMealBegins => calls'["add"].newMeal.timestamp = now
    /\ (At("add", "store") /\ Settles("add")) =>
          /\ sqlMeals' = sqlMeals
          /\ dayMeals' = dayMeals
          /\ monthlySummary' = monthlySummary
    /\ StepFrom("add", "stored") =>
          dayMeals' = <<calls["add"].newMeal>> \o dayMeals
    /\ Resolves("add") =>
          /\ Stores(sqlMeals', calls["add"].newMeal)
          /\ dayMeals' # <<>>
          /\ Head(dayMeals') = calls["add"].newMeal

\* C18 as stated: after addMeal succeeds the store holds the new meal with the
\* time of the call as timestamp, the day list is the new meal followed by
\* the previous list, and monthlySummary is the store's fresh summary of the
\* current month, which counts the new meal; if the store's addMeal fails,
\* the day list and monthlySummary are unchanged.
C18_AddMealRefreshesSummary ==
    [][ /\ AddMealStoresAndPrepends
        /\ Resolves("add") =>
              /\ monthlySummary' \in SqlMonthlySummaries(sqlMeals', GetMonth(now'),
                                                        GetFullYear(now'))
              /\ CountsDayOf(monthlySummary', calls["add"].newMeal.timestamp) ]_vars

\* C18, amended: as above, but monthlySummary is refreshed only if the clock
\* is still in the month of the meal's timestamp when the store call has
\* returned: then it is the store's fresh summary of that month, which counts
\* the new meal; otherwise addMeal resolves with monthlySummary unchanged.
C18_AddMealRefreshesSummaryOfSameMonth ==
    [][ /\ AddMealStoresAndPrepends
        /\ StepFrom("add", "stored") =>
              IF IsCurrentMonth(calls["add"].newMeal.timestamp, now)
              THEN calls'["add"].pc = "summary"
              ELSE Resolves("add") /\ monthlySummary' = monthlySummary
        /\ (At("add", "fetched") /\ Resolves("add")) =>
              LET newMeal == calls["add"].newMeal
              IN  /\ monthlySummary' \in SqlMonthlySummaries(sqlMeals',
                                                            GetMonth(newMeal.timestamp),
                                                            GetFullYear(newMeal.timestamp))
                  /\ CountsDayOf(monthlySummary', newMeal.timestamp) ]_vars

\* addMeal resolved with a meal already in the day list: the new meal is in
\* front of it and the summary counts both
C18_Witness ==
    /\ lastOp.op = "MealProvider.addMeal"
    /\ lastErr = ""
    /\ NoneInFlight
    /\ Len(dayMeals) = 2
    /\ Head(dayMeals) = lastOp.meal
    /\ Stores(sqlMeals, lastOp.meal)
    /\ monthlySummary # NullSummary
    /\ monthlySummary.totalMeals = 2

-----------------------------------------------------------------------------
(* C19 *)

\* C19: after removeMeal(id) succeeds neither the store nor the day list holds
\* a meal with that id, the other entries of the day list keep their order,
\* and if the removed meal is of the current local month and year,
\* monthlySummary is the store's summary computed after the deletion, also
\* when the removed meal was not in the day list.
C19_RemoveMealRefreshesSummary ==
    [][ /\ StepFrom("remove", "stored") =>
              dayMeals' = SelectSeqBy(dayMeals, { m \in Range(dayMeals) :
                                                   m.id # calls["remove"].id })
        /\ Resolves("remove") =>
              LET frame == calls["remove"]
              IN  /\ ~HasId(sqlMeals', frame.id)
                  /\ ~HasId(dayMeals', frame.id)
                  /\ (/\ frame.removed # Null
                      /\ IsCurrentMonth(frame.removed[1].timestamp, now')) =>
                        monthlySummary' \in SqlMonthlySummaries(sqlMeals', GetMonth(now'),
                                                                GetFullYear(now')) ]_vars

-----------------------------------------------------------------------------
(* C20 *)

IdsOf(list) == { m.id : m \in Range(list) }

\* C20: whatever the interleaving of loadInitialData, addMeal and removeMeal
\* calls that all succeed, once no call is in flight the day list holds the
\* ids of the store's getMealsByDate(today), totalCalories is the sum of
\* their calories, and monthlySummary is the store's getMonthlySummary of the
\* current month and year.
C20_QuiescentConsistency ==
    NoneInFlight =>
      /\ \E stored \in SqlMealsByDate(sqlMeals, now) :
            /\ IdsOf(dayMeals) = IdsOf(stored)
            /\ totalCalories = SumCalories(stored)
      /\ monthlySummary \in SqlMonthlySummaries(sqlMeals, GetMonth(now), GetFullYear(now))

-----------------------------------------------------------------------------
(* C21 *)

\* refreshCurrentDate is called: the step that starts its run
RefreshCurrentDateCalled == ~InFlight("refresh") /\ calls'["refresh"] # calls["refresh"]

\* C21: refreshCurrentDate reloads from the store only if the calendar day
\* has advanced since currentDate; called on the same day it starts no store
\* read and leaves meals, monthlySummary, isLoading and error unchanged.
C21_ReloadsOnlyOnNewDay ==
    [][ (RefreshCurrentDateCalled /\ SameLocalDay(currentDate, now)) =>
          /\ ~InFlight("refresh")'
          /\ UNCHANGED <<dayMeals, monthlySummary, isLoading, error>> ]_vars

-----------------------------------------------------------------------------
(* C22 *)

\* C22: when a store read fails during the reload refreshCurrentDate starts,
\* error keeps the value it had and nothing is thrown to the caller.
C22_RefreshFailureNotSurfaced ==
    [][ (StepFrom("refresh", "read") /\ Settles("refresh")) =>
          /\ error' = error
          /\ lastErr' = "" ]_vars

-----------------------------------------------------------------------------
(* C23 *)

\* C23: saveMeals(meals) on the relational store either resolves and the
\* stored meals are exactly the given list, or rejects with 'Failed to save
\* meals' and the stored meals are what they were before the call.
C23_SaveMealsIsTransactional ==
    [][ lastOp'.op = "saveMeals" =>
          IF lastErr' = ""
          THEN SameElements(RowsToMeals(sqlMeals'), lastOp'.meals)
          ELSE /\ lastErr' = "Failed to save meals"
               /\ sqlMeals' = sqlMeals ]_vars

-----------------------------------------------------------------------------
(* C24 *)

\* C24: analyzeFoodImage issues at most one HTTP request per call; when the
\* file read, the request, the status or the body fails it rejects and does
\* not return a result; 'Network request failed' is replaced by the network
\* message, every other failure is thrown with its own message.
C24_OneRequestAndRejects ==
    /\ analysis # Idle => analysis.requests <= 1
    /\ analysis.pc = "resolved" =>
          /\ analysis.requests = 1
          /\ analysis.response.ok
          /\ analysis.response.body.json
          /\ ~analysis.response.body.null
    /\ analysis.pc = "rejected" =>
          analysis.error.message =
            IF analysis.cause = NetworkRequestFailed THEN NetworkMessage
            ELSE analysis.cause.message

\* the request timed out: the call made one request and rejects with the
\* message of the time-out
C24_Witness ==
    /\ analysis.pc = "rejected"
    /\ analysis.requests = 1
    /\ analysis.cause.type = "TypeError"
    /\ analysis.error.message = <<"Network request timed out">>

-----------------------------------------------------------------------------
(* C25 *)

\* Save is pressed in the goal editor
HandleUpdateGoalCalled ==
    /\ screen.alert = Null /\ screen.isEditingGoal /\ screen.handleUpdateGoal = Idle
    /\ \/ screen'.alert = Some("Invalid Goal")
       \/ screen'.handleUpdateGoal # Idle

\* C25: handleUpdateGoal calls updateDailyGoal only when the text parses to
\* an integer from 500 to 10000, and then with that integer; otherwise
\* updateDailyGoal is not called, the stored goal and dailyGoal keep their
\* values and the editor stays open; so every goal that is saved and every
\* dailyGoal that is set lies from 500 to 10000.
C25_OnlyValidGoalsSaved ==
    /\ [](/\ \A i \in DOMAIN sqlGoals : sqlGoals[i].calories \in 500..10000
          /\ dailyGoal \in 500..10000)
    /\ [][ HandleUpdateGoalCalled =>
             LET goal == parseInt(screen.newGoal)
             IN  IF goal # Null /\ goal[1] \in 500..10000
                 THEN /\ At("goal", "store")'
                      /\ calls'["goal"].newGoal = goal[1]
                 ELSE /\ UNCHANGED <<calls, sqlGoals, latestGoals, dailyGoal, outcome>>
                      /\ screen'.isEditingGoal ]_vars

\* '0x1F4' was entered and saved: the goal 500 is stored; and Save was
\* pressed on a text that does not parse to a goal, the editor is open
C25_Witness ==
    /\ \E i \in DOMAIN sqlGoals : sqlGoals[i].calories = 500
    /\ dailyGoal = 500
    /\ screen.alert = Some("Invalid Goal")
    /\ screen.isEditingGoal
    /\ parseInt(screen.newGoal) = Some(10001)

-----------------------------------------------------------------------------
(* C26 *)

\* the callers a and b have added meals of distinct ids and both calls
\* resolved
BothAdded ==
    /\ \A c \in StoreCallers :
          storeCalls[c].pc = "resolved" /\ storeCalls[c].op.name = "addMeal"
    /\ storeCalls["a"].op.meal.id # storeCalls["b"].op.meal.id

\* C26: when two addMeal calls with distinct ids, interleaved at their
\* awaits, have both resolved, both meals are in mealsCache and in the
\* persisted meals array.
C26_NoAddMealLost ==
    BothAdded =>
      \A c \in StoreCallers :
         /\ storeCalls[c].op.meal \in Range(mealsCache)
         /\ storeCalls[c].op.meal \in Range(PersistedMeals)

-----------------------------------------------------------------------------
(* C27 *)

\* the call of caller c resolves in this step
CallResolves(c) == storeCalls[c].pc = "written" /\ storeCalls'[c].pc = "resolved"

\* the call of caller c rejects in this step
CallRejects(c) == Running(c) /\ storeCalls'[c].pc = "rejected"

\* C27: when an addMeal on the cache store resolves, the persisted meals are
\* the meals that were persisted when the call began and the new meal after
\* them, whether or not the read of storage in initialize() failed.
C27_AddMealKeepsPersistedMeals ==
    [][ \A c \in StoreCallers :
          (CallResolves(c) /\ storeCalls[c].op.name = "addMeal") =>
             PersistedMeals' = Append(storeCalls[c].persisted, storeCalls[c].op.meal) ]_vars

-----------------------------------------------------------------------------
(* C28 *)

\* the second half of C28 alone: a failed write rejects the call and leaves
\* the cache and the storage as they were
C28_FailedWriteKeepsCache ==
    [][ \A c \in StoreCallers :
          (storeCalls[c].pc = "setItem" /\ storeCalls'[c].pc # "written") =>
             /\ CallRejects(c)
             /\ storeCalls'[c].error = FailureMessage(storeCalls[c].op)
             /\ mealsCache' = mealsCache
             /\ PersistedMeals' = PersistedMeals ]_vars

\* C28: in the cache store, once it is initialized and while no call is in
\* flight, mealsCache is the persisted meals array; and when the write to
\* storage fails the call rejects with the message of its operation and
\* mealsCache keeps its value.
C28_CacheIsPersistedWhenQuiet ==
    /\ []((isInitialized /\ NoneRunning) => mealsCache = PersistedMeals)
    /\ C28_FailedWriteKeepsCache


-----------------------------------------------------------------------------
(* C29 *)

\* the runs of loadInitialData: of the effect or refreshMeals, and of
\* refreshCurrentDate
LoadRuns == {"load", "refresh"}

\* a run of loadInitialData is in flight
Loading == \E c \in LoadRuns : InFlight(c)

\* every run of loadInitialData that ends with no other run in flight leaves
\* isLoading false, and error null when it succeeded and the message when a
\* read failed
C29_RunEndsNotLoading ==
    [][ \A c \in LoadRuns :
          Settles(c) =>
             /\ ~Loading' => ~isLoading'
             /\ error' = IF At(c, "fetched") THEN Null
                         ELSE Some("Failed to load meals from database") ]_vars

\* C29: isLoading is true while a run of loadInitialData is in flight, also
\* when an overlapping run has ended, and false when none is; every run ends
\* with error null or 'Failed to load meals from database'.
C29_IsLoadingWhileARunIsInFlight ==
    /\ [](isLoading <=> Loading)
    /\ C29_RunEndsNotLoading

-----------------------------------------------------------------------------
(* C30 *)

\* analyzeFood is between its first statement and its finally block
Analysing == screen.analyzeFood # Idle

\* isAnalyzing is true exactly while analyzeFood runs
C30_IsAnalyzingWhileAnalysing == screen.isAnalyzing <=> Analysing

\* analyzeFood ends in this step
AnalyzeFoodEnds == Analysing /\ ~Analysing'

\* C30: isAnalyzing is true from the start of analyzeFood and false after
\* every outcome; when the alert 'Food Analysis Complete' is shown the
\* addMeal of the facade has resolved; and when addMeal rejects the screen
\* shows its alert 'Error'.
C30_AlertAfterAddMeal ==
    /\ [](screen.isAnalyzing <=> Analysing)
    /\ [][ /\ (AnalyzeFoodEnds /\ screen'.alert = Some("Food Analysis Complete")) =>
                /\ ~InFlight("add")'
                /\ lastOp'.op = "MealProvider.addMeal"
                /\ lastErr' = ""
           /\ (Settles("add") /\ lastErr' # "") =>
                screen'.alert = Some("Error") ]_vars

====
